---------------------------- MODULE Spec2Model ----------------------------
(***************************************************************************)
(* A model of the audit-and-remediation engine of webforge-system          *)
(* (src/src/auditor.ts): the pattern evaluators, the aggregator/scorer     *)
(* of auditWebsite, and the guarded text insertions of fixSeoIssues; and   *)
(* of the callers of the template store (resolveTemplate of the site       *)
(* builder) and of deployToHosting (src/src/deployer.ts).                  *)
(*                                                                         *)
(* Representation.  A text (a JavaScript string that the code measures,    *)
(* splits, trims or concatenates) is a sequence of one-character strings;  *)
(* the empty sequence is "", the only falsy string.  A document (page      *)
(* HTML, or the stored file) is a sequence of markup tokens.  A token is   *)
(* one tag or fragment; the regular expressions and substring tests of     *)
(* the source never match across a ">" and so are decided per token.       *)
(* Token fields: k the kind, a an atom (rel value, schema type), n an      *)
(* attribute name text, c a content text, f the set of simple patterns     *)
(* of the source that the token's raw text matches.                        *)
(***************************************************************************)
EXTENDS Integers, Sequences, FiniteSets, TLC

VARIABLES
    \* ---- auditWebsite: fetched artifacts, checklist cache, result ----
    url,            \* the normalized subject URL scheme: "https" or "http"
    html,           \* pageData.html
    headers,        \* pageData.headers (lower-cased names -> value)
    robotsTxt,      \* fetchOptional(robots.txt): "" stands for null
    sitemapXml,     \* fetchOptional(sitemap.xml): "" stands for null
    cachedChecklist,\* templates: let cachedChecklist
    audit,          \* the AuditResult returned, or NoAudit
    \* ---- fixSeoIssues: the stored file, the call's arguments, result ----
    fileExists,     \* fs.existsSync(filePath)
    file,           \* the stored document
    issues,         \* FixIssue[] argument
    domain,         \* domain argument (<<>> when not given)
    businessName,   \* businessName argument (<<>> when not given)
    ret,            \* what the last call returned or threw
    runs,           \* number of fixSeoIssues calls made so far
    prevFile,       \* history: the stored document before the last call
    inserted,       \* history: insertions the last call really made
    loggedIds,      \* history: check-id of each change the last call logged
    \* ---- loadChecklist: the candidate files and what the last call did ----
    disk,           \* the state of each candidate path of the checklist
    loads,          \* number of loadChecklist calls made so far
    consulted,      \* history: the paths the last call tested, in order
    loadedFrom,     \* history: where the last call's value came from
    \* ---- concurrent auditWebsite invocations ----
    audits,         \* per invocation: position, subject, fetches, outcome
    \* ---- fixSeoIssues invocations of one process on stored files ----
    docs,           \* path -> stored text, or Absent
    fixCalls,       \* per invocation: position, arguments, locals, outcome
    running,        \* the invocation on the call stack, 0 when none
    fsLog,          \* history: the fs calls made, in order
    \* ---- the site builder: build_website and generate_page calls ----
    builds,         \* history: per call, its arguments and the template it used
    \* ---- deployToHosting: one deployment run ----
    deploy          \* position, local files, the remote host, ssh calls made

auditVars == <<url, html, headers, robotsTxt, sitemapXml, cachedChecklist, audit>>
fixVars == <<fileExists, file, issues, domain, businessName, ret, runs,
             prevFile, inserted, loggedIds>>
loadVars == <<disk, loads, consulted, loadedFrom>>
runVars == <<audits>>
rmwVars == <<docs, fixCalls, running, fsLog>>
buildVars == <<builds>>
deployVars == <<deploy>>
vars == <<auditVars, fixVars, loadVars, runVars, rmwVars, buildVars, deployVars>>

\* the parts of the state a specification does not use stay as they start
LoadIdle == disk = <<>> /\ loads = 0 /\ consulted = <<>> /\ loadedFrom = ""
RunIdle == audits = <<>>
RmwIdle == docs = <<>> /\ fixCalls = <<>> /\ running = 0 /\ fsLog = <<>>
BuildIdle == builds = <<>>
DeployIdle == deploy = <<>>

(***************************************************************************)
(* Bounds of the model.                                                    *)
(***************************************************************************)
MaxFixDocLen == 2
MaxIssues == 2
MaxRuns == 2
MaxAuditDocLen == 2

(***************************************************************************)
(* Texts.                                                                  *)
(***************************************************************************)
S_robots == <<"r","o","b","o","t","s">>
S_description == <<"d","e","s","c","r","i","p","t","i","o","n">>
S_viewport == <<"v","i","e","w","p","o","r","t">>
S_og_type == <<"o","g",":","t","y","p","e">>
S_og_title == <<"o","g",":","t","i","t","l","e">>
S_og_description == <<"o","g",":","d","e","s","c","r","i","p","t","i","o","n">>
S_og_image == <<"o","g",":","i","m","a","g","e">>
S_og_url == <<"o","g",":","u","r","l">>
S_twitter_card == <<"t","w","i","t","t","e","r",":","c","a","r","d">>
S_Website == <<"W","e","b","s","i","t","e">>
S_bar == <<" ","|"," ">>
S_desc_tail == <<" ","-"," ","P","r","o","f","e","s","s","i","o","n","a","l"," ",
                 "s","e","r","v","i","c","e","s","."," ","C","o","n","t","a","c","t",
                 " ","u","s"," ","t","o","d","a","y",".">>
S_https == <<"h","t","t","p","s",":","/","/">>
S_slash == <<"/">>
S_index_follow == <<"i","n","d","e","x",","," ","f","o","l","l","o","w">>
S_viewport_content == <<"w","i","d","t","h","=","d","e","v","i","c","e","-","w","i","d",
                        "t","h",","," ","i","n","i","t","i","a","l","-","s","c","a","l",
                        "e","=","1",".","0">>
S_UTF8 == <<"U","T","F","-","8">>
S_latin1 == <<"l","a","t","i","n","1">>
S_en == <<"e","n">>
S_Hi == <<"H","i">>
S_a_io == <<"a",".","i","o">>
\* "og:title:Hi", the shape of instruction the Open Graph route parses
S_og_title_Hi == S_og_title \o <<":">> \o S_Hi
\* "og: ", a property with a blank value
S_og_blank == <<"o","g",":"," ">>

\* a string of n characters
Rep(n) == [i \in 1..n |-> "x"]

\* JavaScript truthiness of a string
Truthy(s) == s # <<>>
\* a || b on strings
OrElse(a, b) == IF Truthy(a) THEN a ELSE b

\* index of the first ":" of s, 0 when there is none
FirstColon(s) ==
    IF \E i \in 1..Len(s) : s[i] = ":"
    THEN CHOOSE i \in 1..Len(s) : s[i] = ":" /\ \A j \in 1..(i-1) : s[j] # ":"
    ELSE 0
\* s.split(":")[0]
SplitHead(s) == IF FirstColon(s) = 0 THEN s ELSE SubSeq(s, 1, FirstColon(s) - 1)
\* s.split(":").slice(1).join(":")
SplitRest(s) == IF FirstColon(s) = 0 THEN <<>> ELSE SubSeq(s, FirstColon(s) + 1, Len(s))
\* s.trim()
RECURSIVE TrimLeft(_)
TrimLeft(s) == IF s # <<>> /\ Head(s) = " " THEN TrimLeft(Tail(s)) ELSE s
RECURSIVE TrimRight(_)
TrimRight(s) ==
    IF s # <<>> /\ s[Len(s)] = " " THEN TrimRight(SubSeq(s, 1, Len(s) - 1)) ELSE s
Trim(s) == TrimRight(TrimLeft(s))

(***************************************************************************)
(* Tokens.                                                                 *)
(***************************************************************************)
Tok(k, a, n, c, f) == [k |-> k, a |-> a, n |-> n, c |-> c, f |-> f]

T_html == Tok("html", "", <<>>, <<>>, {})                 \* <html>
T_htmlLang(v) == Tok("html_lang", "", <<>>, v, {})        \* <html lang="v">
T_head == Tok("head", "", <<>>, <<>>, {})                 \* <head>
T_headEnd == Tok("head_end", "", <<>>, <<>>, {})          \* </head>
T_title(t) == Tok("title", "", <<>>, t, {})               \* <title>t</title>
T_TITLE(t) == Tok("title_uc", "", <<>>, t, {})            \* <TITLE>t</TITLE>
T_metaName(n, c) == Tok("meta_name", "", n, c, {})        \* <meta name="n" content="c">
T_metaProp(n, c) == Tok("meta_prop", "", n, c, {})        \* <meta property="n" content="c">
T_charset(c) == Tok("meta_charset", "", <<>>, c, {})      \* <meta charset="c">
T_link(rel, href) == Tok("link", rel, <<>>, href, {})     \* <link rel="rel" href="href">
\* <img src="..." alt="alt" ...>; f: "dims" (a width before a height),
\* "dims_hw" (a height before a width), "lazy"
T_img(alt, f) == Tok("img", "", <<>>, alt, f)
T_h(level) == Tok("h", level, <<>>, <<>>, {})             \* <h1 ...>; level is "1", "2", "3"
\* a JSON-LD script holding "@type": "type"
T_jsonld(type) == Tok("jsonld", type, <<>>, <<>>, {})
\* any other fragment, known by the simple patterns it matches
T_elem(f) == Tok("elem", "", <<>>, <<>>, f)

\* the least index of a non-empty set of positions
First(S) == CHOOSE i \in S : \A j \in S : i <= j

(***************************************************************************)
(* Extraction helpers of the auditor.                                      *)
(***************************************************************************)
None == [some |-> FALSE, v |-> <<>>]
Some(v) == [some |-> TRUE, v |-> v]
\* truthiness of a string | null
Present(m) == m.some /\ Truthy(m.v)

\* extractMeta: the name= patterns are tried over the whole text before the
\* property= patterns; each match is the leftmost one
extractMeta(d, name) ==
    LET byName == {i \in 1..Len(d) : d[i].k = "meta_name" /\ d[i].n = name}
        byProp == {i \in 1..Len(d) : d[i].k = "meta_prop" /\ d[i].n = name}
    IN  IF byName # {} THEN Some(d[First(byName)].c)
        ELSE IF byProp # {} THEN Some(d[First(byProp)].c)
        ELSE None

\* checkHtml(html, p) for a simple pattern p carried by tokens
checkHtml(d, p) == \E i \in 1..Len(d) : p \in d[i].f

\* content.includes("<title>")
IncludesTitleOpen(d) == \E i \in 1..Len(d) : d[i].k = "title"
\* html.match(/<title>([^<]*)<\/title>/i)
titleMatch(d) ==
    LET S == {i \in 1..Len(d) : d[i].k \in {"title", "title_uc"}}
    IN  IF S # {} THEN Some(d[First(S)].c) ELSE None
\* /rel=["']canonical["']/i
hasCanonical(d) == \E i \in 1..Len(d) : d[i].k = "link" /\ d[i].a = "canonical"
\* /name=["']viewport["']/i
hasViewport(d) == \E i \in 1..Len(d) : d[i].k = "meta_name" /\ d[i].n = S_viewport
\* /charset=["']?UTF-8["']?/i
hasCharset(d) == \E i \in 1..Len(d) : d[i].k = "meta_charset" /\ d[i].c = S_UTF8
\* content.includes('charset')
IncludesCharset(d) == \E i \in 1..Len(d) : d[i].k = "meta_charset"
\* /<html[^>]*lang=["'][a-z]/i
hasLang(d) == \E i \in 1..Len(d) : d[i].k = "html_lang" /\ Truthy(d[i].c)
\* /<html[^>]*lang=/i
HasLangAttr(d) == \E i \in 1..Len(d) : d[i].k = "html_lang"
\* countHeadings(html, level)
countHeadings(d, level) == Cardinality({i \in 1..Len(d) : d[i].k = "h" /\ d[i].a = level})
\* hasSchema(html, type)
hasSchema(d, type) == \E i \in 1..Len(d) : d[i].k = "jsonld" /\ d[i].a = type

(***************************************************************************)
(* The checklist store (templates): loadChecklist and getAuditSections.    *)
(* A checklist is null or the parsed JSON: top-level key -> entry; an      *)
(* entry of a section has a label and items (check-id -> definition).      *)
(* Display strings are TLA+ strings; "" stands for an absent or empty one. *)
(***************************************************************************)
NullChecklist == [loaded |-> FALSE, json |-> <<>>]
Loaded(json) == [loaded |-> TRUE, json |-> json]

\* key.match(/^\d+_/) for the keys a checklist file holds
DigitPrefixed(key) == key \notin {"version", "description"}

\* getAuditSections(): the numbered sections of the checklist that have items
getAuditSections(cl) ==
    IF ~cl.loaded THEN <<>>
    ELSE LET keys == {k \in DOMAIN cl.json :
                         /\ DigitPrefixed(k)
                         /\ k # "0_website_builder_system"
                         /\ cl.json[k].hasItems}
         IN  [k \in keys |-> cl.json[k]]

\* sections[key]?.items || {}
ItemsOf(sections, key) == IF key \in DOMAIN sections THEN sections[key].items ELSE <<>>
\* items[id]?.field, "" when undefined
Field(items, id, field) == IF id \in DOMAIN items THEN items[id][field] ELSE ""
\* a variant that keeps an empty first operand
OrStrFirst(a, b) == a
\* a || b on display strings
OrStr(a, b) == IF a # "" THEN a ELSE b

\* a variant that lets the status recorded in the checklist override the
\* evaluator's verdict
ItemResultChecklistStatus(items, id, label, priority, status) ==
    [id |-> id,
     check |-> OrStr(Field(items, id, "check"), label),
     priority |-> priority,
     status |-> OrStr(Field(items, id, "status"), status),
     how_to_fix |-> OrStr(Field(items, id, "how_to_fix"), "")]

\* an ItemResult (its details text, which nothing reads, is left out)
ItemResult(items, id, label, priority, status) ==
    [id |-> id,
     check |-> OrStr(Field(items, id, "check"), label),
     priority |-> priority,
     status |-> status,
     how_to_fix |-> OrStr(Field(items, id, "how_to_fix"), "")]
\* priority: items[id]?.priority || "high"
ItemResultP(items, id, label, status) ==
    ItemResult(items, id, label, OrStr(Field(items, id, "priority"), "high"), status)

\* a variant that takes a failed binary check as not applicable
DoneOrNotApplicable(b) == IF b THEN "done" ELSE "not_applicable"
DoneOrMissing(b) == IF b THEN "done" ELSE "missing"

(***************************************************************************)
(* The pattern evaluators.  Each returns its items in insertion order.     *)
(***************************************************************************)
\* checkHtml(html, /rel=["']r["']/i)
hasRel(d, r) == \E i \in 1..Len(d) : d[i].k = "link" /\ d[i].a = r

auditTechnicalSeo(d, u, robots, sitemap, cl) ==
    LET items == ItemsOf(getAuditSections(cl), "1_technical_seo")
    IN  << ItemResult(items, "1_01_https", "HTTPS", "critical", DoneOrMissing(u = "https")),
           ItemResult(items, "1_03_robots_txt", "robots.txt", "critical",
                      DoneOrMissing(robots # "")),
           ItemResult(items, "1_04_sitemap_xml", "sitemap.xml", "critical",
                      DoneOrMissing(sitemap # "")),
           ItemResult(items, "1_06_canonical_tags", "Canonical tag", "critical",
                      DoneOrMissing(hasCanonical(d))),
           ItemResult(items, "1_07_meta_robots", "Meta robots", "high",
                      DoneOrMissing(Present(extractMeta(d, S_robots)))),
           ItemResult(items, "1_13_viewport_meta", "Viewport meta", "critical",
                      DoneOrMissing(hasViewport(d))),
           ItemResult(items, "1_14_charset", "Charset UTF-8", "high",
                      DoneOrMissing(hasCharset(d))),
           ItemResult(items, "1_15_lang_attribute", "Lang attribute", "medium",
                      DoneOrMissing(hasLang(d))) >>

\* done inside [lo, hi], partial when present outside it, missing when falsy
LengthStatus(m, lo, hi) ==
    IF Present(m)
    THEN (IF Len(m.v) >= lo /\ Len(m.v) <= hi THEN "done" ELSE "partial")
    ELSE "missing"

imgTotal(d) == Cardinality({i \in 1..Len(d) : d[i].k = "img"})
imgWithAlt(d) == Cardinality({i \in 1..Len(d) : d[i].k = "img" /\ Truthy(d[i].c)})
\* the matches of the width-before-height pattern plus the matches of the
\* height-before-width pattern: "dims" and "dims_hw" say which an img matches
imgWithDims(d) ==
    Cardinality({i \in 1..Len(d) : d[i].k = "img" /\ "dims" \in d[i].f})
        + Cardinality({i \in 1..Len(d) : d[i].k = "img" /\ "dims_hw" \in d[i].f})
imgWithLazy(d) == Cardinality({i \in 1..Len(d) : "lazy" \in d[i].f})

auditOnPageSeo(d, cl) ==
    LET items == ItemsOf(getAuditSections(cl), "2_on_page_seo")
        h1Count == countHeadings(d, "1")
        h2Count == countHeadings(d, "2")
    IN  << ItemResult(items, "2_01_title_tag", "Title tag", "critical",
                      LengthStatus(titleMatch(d), 30, 70)),
           ItemResult(items, "2_02_meta_description", "Meta description", "critical",
                      LengthStatus(extractMeta(d, S_description), 100, 170)),
           ItemResult(items, "2_03_h1_tag", "H1 tag", "critical",
                      IF h1Count = 1 THEN "done"
                      ELSE IF h1Count > 1 THEN "partial" ELSE "missing"),
           ItemResult(items, "2_04_heading_hierarchy", "Heading hierarchy", "high",
                      IF h1Count >= 1 /\ h2Count >= 1 THEN "done" ELSE "partial"),
           ItemResult(items, "2_07_image_alt_tags", "Image alt tags", "critical",
                      IF imgTotal(d) = 0 THEN "not_applicable"
                      ELSE IF imgWithAlt(d) = imgTotal(d) THEN "done"
                      ELSE IF imgWithAlt(d) > 0 THEN "partial" ELSE "missing"),
           ItemResult(items, "2_08_image_dimensions", "Image dimensions", "high",
                      IF imgTotal(d) = 0 THEN "not_applicable"
                      ELSE IF imgWithDims(d) >= imgTotal(d) THEN "done"
                      ELSE IF imgWithDims(d) > 0 THEN "partial" ELSE "missing"),
           ItemResult(items, "2_11_image_lazy_loading", "Lazy loading", "high",
                      IF imgTotal(d) <= 1 THEN "not_applicable"
                      ELSE IF imgWithLazy(d) > 0 THEN "done" ELSE "missing"),
           ItemResult(items, "2_20_favicon", "Favicon", "medium",
                      DoneOrMissing(hasRel(d, "icon") \/ checkHtml(d, "favicon"))) >>

auditSchema(d, cl) ==
    LET items == ItemsOf(getAuditSections(cl), "3_structured_data_schema")
        checks == << <<"3_01_organization_schema", "Organization", "Organization schema">>,
                     <<"3_02_local_business_schema", "LocalBusiness", "LocalBusiness schema">>,
                     <<"3_03_breadcrumb_schema", "BreadcrumbList", "BreadcrumbList schema">>,
                     <<"3_04_faq_schema", "FAQPage", "FAQPage schema">>,
                     <<"3_05_article_schema", "Article", "Article schema">>,
                     <<"3_10_speakable_schema", "SpeakableSpecification", "Speakable schema">> >>
    IN  [i \in 1..Len(checks) |->
            ItemResultP(items, checks[i][1], checks[i][3],
                        DoneOrMissing(hasSchema(d, checks[i][2])))]

auditOgTags(d, cl) ==
    LET items == ItemsOf(getAuditSections(cl), "4_open_graph_social")
        checks == << <<"4_01_og_type", S_og_type, "og:type">>,
                     <<"4_02_og_title", S_og_title, "og:title">>,
                     <<"4_03_og_description", S_og_description, "og:description">>,
                     <<"4_04_og_image", S_og_image, "og:image">>,
                     <<"4_05_og_url", S_og_url, "og:url">>,
                     <<"4_08_twitter_card", S_twitter_card, "Twitter card">> >>
    IN  [i \in 1..Len(checks) |->
            ItemResultP(items, checks[i][1], checks[i][3],
                        DoneOrMissing(Present(extractMeta(d, checks[i][2]))))]

\* headers[name]: "" when the response has no such header
Header(h, name) == IF name \in DOMAIN h THEN h[name] ELSE ""

auditSecurity(h, cl) ==
    LET items == ItemsOf(getAuditSections(cl), "8_security")
        checks == << <<"8_01_hsts", "strict-transport-security", "HSTS">>,
                     <<"8_02_x_content_type", "x-content-type-options", "X-Content-Type-Options">>,
                     <<"8_03_x_frame_options", "x-frame-options", "X-Frame-Options">>,
                     <<"8_04_xss_protection", "x-xss-protection", "X-XSS-Protection">>,
                     <<"8_05_referrer_policy", "referrer-policy", "Referrer-Policy">>,
                     <<"8_07_csp", "content-security-policy", "CSP">> >>
    IN  [i \in 1..Len(checks) |->
            ItemResultP(items, checks[i][1], checks[i][3],
                        DoneOrMissing(Header(h, checks[i][2]) # ""))]

\* gzipHeader.includes("gzip") || gzipHeader.includes("br")
IsCompressed(v) == v \in {"gzip", "br", "gzip, br"}

auditPerformance(d, h, cl) ==
    LET items == ItemsOf(getAuditSections(cl), "7_performance_core_web_vitals")
    IN  << ItemResult(items, "7_01_gzip_compression", "GZIP", "critical",
                      DoneOrMissing(IsCompressed(Header(h, "content-encoding")))),
           ItemResult(items, "7_07_preload_lcp", "Preload LCP", "high",
                      DoneOrMissing(hasRel(d, "preload"))),
           ItemResult(items, "7_08_preconnect", "Preconnect", "medium",
                      DoneOrMissing(hasRel(d, "preconnect"))),
           ItemResult(items, "7_09_defer_js", "Defer JS", "high",
                      DoneOrMissing(checkHtml(d, "defer") \/ checkHtml(d, "async"))),
           ItemResult(items, "7_11_font_optimization", "Font swap", "medium",
                      DoneOrMissing(checkHtml(d, "display=swap")
                                    \/ checkHtml(d, "font-display:swap"))) >>

auditUxCro(d, cl) ==
    LET items == ItemsOf(getAuditSections(cl), "11_ux_cro")
    IN  << ItemResult(items, "11_01_cta_visibility", "CTA visibility", "critical",
                      DoneOrMissing(checkHtml(d, "class=btn"))),
           ItemResult(items, "11_04_phone_clickable", "Clickable phone", "high",
                      DoneOrMissing(checkHtml(d, "href=tel:"))),
           ItemResult(items, "11_05_whatsapp_button", "WhatsApp button", "medium",
                      DoneOrMissing(checkHtml(d, "wa.me") \/ checkHtml(d, "whatsapp"))),
           ItemResult(items, "11_03_contact_form", "Contact form", "high",
                      DoneOrMissing(checkHtml(d, "<form "))),
           ItemResult(items, "11_09_cookie_consent", "Cookie consent", "medium",
                      DoneOrMissing(checkHtml(d, "cookie")
                                    /\ (checkHtml(d, "accept") \/ checkHtml(d, "consent")))) >>

auditAccessibility(d, cl) ==
    LET items == ItemsOf(getAuditSections(cl), "15_accessibility")
    IN  << ItemResult(items, "15_01_aria_labels", "ARIA labels", "high",
                      DoneOrMissing(checkHtml(d, "aria-label"))),
           ItemResult(items, "15_06_semantic_html", "Semantic HTML", "medium",
                      DoneOrMissing(checkHtml(d, "<nav"))),
           ItemResult(items, "15_04_form_labels", "Form labels", "high",
                      IF checkHtml(d, "<label ") THEN "done"
                      ELSE IF checkHtml(d, "<form") THEN "missing" ELSE "not_applicable") >>

auditLegal(d, cl) ==
    LET items == ItemsOf(getAuditSections(cl), "16_legal_compliance")
    IN  << ItemResult(items, "16_01_privacy_policy", "Privacy Policy", "critical",
                      DoneOrMissing(checkHtml(d, "privacy policy"))),
           ItemResult(items, "16_02_terms_of_service", "Terms of Service", "high",
                      DoneOrMissing(checkHtml(d, "terms of service"))),
           ItemResult(items, "16_04_copyright_notice", "Copyright", "medium",
                      DoneOrMissing(checkHtml(d, "copyright"))) >>

(***************************************************************************)
(* auditWebsite: the aggregator and scorer.                                *)
(***************************************************************************)
\* allChecks, in the order its keys are inserted
allChecks(d, h, u, robots, sitemap, cl) ==
    << [key |-> "1_technical_seo", items |-> auditTechnicalSeo(d, u, robots, sitemap, cl)],
       [key |-> "2_on_page_seo", items |-> auditOnPageSeo(d, cl)],
       [key |-> "3_structured_data_schema", items |-> auditSchema(d, cl)],
       [key |-> "4_open_graph_social", items |-> auditOgTags(d, cl)],
       [key |-> "7_performance_core_web_vitals", items |-> auditPerformance(d, h, cl)],
       [key |-> "8_security", items |-> auditSecurity(h, cl)],
       [key |-> "11_ux_cro", items |-> auditUxCro(d, cl)],
       [key |-> "15_accessibility", items |-> auditAccessibility(d, cl)],
       [key |-> "16_legal_compliance", items |-> auditLegal(d, cl)] >>

\* a variant that also counts a partial item as failed
CountItemPartialAsFailed(c, status) ==
    [c EXCEPT !.totalChecks = @ + 1,
              !.passed = @ + (IF status = "done" THEN 1 ELSE 0),
              !.partial = @ + (IF status = "partial" THEN 1 ELSE 0),
              !.na = @ + (IF status = "not_applicable" THEN 1 ELSE 0),
              !.failed = @ + (IF status \notin {"done", "not_applicable"} THEN 1 ELSE 0)]

\* the four global counters after one more item of the given status
CountItem(c, status) ==
    [c EXCEPT !.totalChecks = @ + 1,
              !.passed = @ + (IF status = "done" THEN 1 ELSE 0),
              !.partial = @ + (IF status = "partial" THEN 1 ELSE 0),
              !.na = @ + (IF status = "not_applicable" THEN 1 ELSE 0),
              !.failed = @ + (IF status \notin {"done", "partial", "not_applicable"}
                              THEN 1 ELSE 0)]

\* a variant whose final else branch also takes a not_applicable item
CountSectionItemNaAsFailed(sc, status) ==
    [passed |-> sc.passed + (IF status = "done" THEN 1 ELSE 0),
     failed |-> sc.failed + (IF status # "done" THEN 1 ELSE 0)]

\* a variant whose section tally leaves a partial item out
CountSectionItemMissingOnly(sc, status) ==
    [passed |-> sc.passed + (IF status = "done" THEN 1 ELSE 0),
     failed |-> sc.failed + (IF status = "missing" THEN 1 ELSE 0)]

\* sectionPassed and sectionFailed after one more item of the given status
CountSectionItem(sc, status) ==
    [passed |-> sc.passed + (IF status = "done" THEN 1 ELSE 0),
     failed |-> sc.failed + (IF status \notin {"done", "not_applicable"} THEN 1 ELSE 0)]

\* a variant that forgets the not_applicable test
NeedsFixNotDone(status) == status # "done"

\* result.status !== "done" && result.status !== "not_applicable"
NeedsFix(status) == status # "done" /\ status # "not_applicable"

PriorityFix(item, sectionLabel) ==
    [check_id |-> item.id, check |-> item.check, priority |-> item.priority,
     how_to_fix |-> item.how_to_fix, section |-> sectionLabel]

\* the inner loop over the items of one section; acc.i is the next item
RECURSIVE FoldItems(_, _, _)
FoldItems(acc, items, sectionLabel) ==
    IF acc.i > Len(items) THEN acc
    ELSE LET item == items[acc.i]
         IN  FoldItems(
                 [i |-> acc.i + 1,
                  counts |-> CountItem(acc.counts, item.status),
                  section |-> CountSectionItem(acc.section, item.status),
                  fixes |-> IF NeedsFix(item.status)
                            THEN Append(acc.fixes, PriorityFix(item, sectionLabel))
                            ELSE acc.fixes],
                 items, sectionLabel)

\* the outer loop over the sections; acc.s is the next section
RECURSIVE FoldSections(_, _, _)
FoldSections(acc, checks, auditSections) ==
    IF acc.s > Len(checks) THEN acc
    ELSE LET sec == checks[acc.s]
             sectionLabel == IF sec.key \in DOMAIN auditSections
                             THEN OrStr(auditSections[sec.key].label, sec.key)
                             ELSE sec.key
             r == FoldItems([i |-> 1,
                             counts |-> acc.counts,
                             section |-> [passed |-> 0, failed |-> 0],
                             fixes |-> acc.fixes],
                            sec.items, sectionLabel)
         IN  FoldSections(
                 [s |-> acc.s + 1,
                  counts |-> r.counts,
                  fixes |-> r.fixes,
                  sections |-> Append(acc.sections,
                                  [key |-> sec.key, label |-> sectionLabel,
                                   total |-> Len(sec.items),
                                   passed |-> r.section.passed,
                                   failed |-> r.section.failed,
                                   items |-> sec.items])],
                 checks, auditSections)

\* priorityOrder[p]: undefined, here -1, for a priority that is no key
priorityOrder(p) ==
    CASE p = "critical" -> 0
      [] p = "high" -> 1
      [] p = "medium" -> 2
      [] p = "low" -> 3
      [] OTHER -> -1
\* priorityOrder[p] || 3: 0 is falsy, as undefined is
SortRank(p) == IF priorityOrder(p) \in {0, -1} THEN 3 ELSE priorityOrder(p)

\* the fixes of one rank, in the order they have in the list
OfRank(fixes, rank) == SelectSeq(fixes, LAMBDA x : SortRank(x.priority) = rank)
\* a variant that is not stable: the fixes of one rank come out reversed
Reversed(q) == [i \in 1..Len(q) |-> q[Len(q) + 1 - i]]
SortFixesUnstable(fixes) ==
    Reversed(OfRank(fixes, 0)) \o Reversed(OfRank(fixes, 1))
        \o Reversed(OfRank(fixes, 2)) \o Reversed(OfRank(fixes, 3))

\* priorityFixes.sort((a, b) => rank(a) - rank(b)).  Array.prototype.sort is
\* stable: ascending rank, and list order among the fixes of one rank
SortFixes(fixes) ==
    OfRank(fixes, 0) \o OfRank(fixes, 1) \o OfRank(fixes, 2) \o OfRank(fixes, 3)

\* a variant that truncates, as Math.floor does
MathFloor(num, den) == num \div den

\* Math.round(x) is floor(x + 1/2).  The 50 checks hold at most four
\* not_applicable items, so applicable is in 46..50, and for those the double
\* (passed / applicable) * 100 rounds as the exact ratio num / den does
MathRound(num, den) == (2 * num + den) \div (2 * den)
\* applicable > 0 ? Math.round((passed / applicable) * 100) : 0
ScorePercentage(passed, applicable) ==
    IF applicable > 0 THEN MathRound(100 * passed, applicable) ELSE 0

\* the AuditResult built from the fetched artifacts (its timestamp left out)
AuditResult(d, h, u, robots, sitemap, cl) ==
    LET r == FoldSections(
                 [s |-> 1,
                  counts |-> [totalChecks |-> 0, passed |-> 0, failed |-> 0,
                              partial |-> 0, na |-> 0],
                  fixes |-> <<>>, sections |-> <<>>],
                 allChecks(d, h, u, robots, sitemap, cl), getAuditSections(cl))
    IN  [done |-> TRUE,
         url |-> u,
         total_checks |-> r.counts.totalChecks,
         passed |-> r.counts.passed,
         failed |-> r.counts.failed,
         partial |-> r.counts.partial,
         not_applicable |-> r.counts.na,
         score_percentage |-> ScorePercentage(r.counts.passed,
                                              r.counts.totalChecks - r.counts.na),
         sections |-> r.sections,
         priority_fixes |-> SortFixes(r.fixes)]

NoAudit == [done |-> FALSE]

\* auditWebsite, from the settled fetches to the returned report
AuditWebsite ==
    /\ ~audit.done
    /\ audit' = AuditResult(html, headers, url, robotsTxt, sitemapXml, cachedChecklist)
    /\ UNCHANGED <<url, html, headers, robotsTxt, sitemapXml, cachedChecklist>>
    /\ UNCHANGED fixVars
    /\ UNCHANGED <<loadVars, runVars, rmwVars, buildVars, deployVars>>

(***************************************************************************)
(* fixSeoIssues.                                                           *)
(***************************************************************************)
\* the spelling of a check-id, for the prefix and substring tests of the routes
CheckIdText(id) ==
    CASE id = "2_01_title_tag" ->
           <<"2","_","0","1","_","t","i","t","l","e","_","t","a","g">>
      [] id = "2_02_meta_description" ->
           <<"2","_","0","2","_","m","e","t","a","_","d","e","s","c","r","i","p","t","i","o","n">>
      [] id = "2_03_h1_tag" ->
           <<"2","_","0","3","_","h","1","_","t","a","g">>
      [] id = "1_06_canonical_tags" ->
           <<"1","_","0","6","_","c","a","n","o","n","i","c","a","l","_","t","a","g","s">>
      [] id = "1_07_meta_robots" ->
           <<"1","_","0","7","_","m","e","t","a","_","r","o","b","o","t","s">>
      [] id = "1_13_viewport_meta" ->
           <<"1","_","1","3","_","v","i","e","w","p","o","r","t","_","m","e","t","a">>
      [] id = "1_14_charset" ->
           <<"1","_","1","4","_","c","h","a","r","s","e","t">>
      [] id = "1_15_lang_attribute" ->
           <<"1","_","1","5","_","l","a","n","g","_","a","t","t","r","i","b","u","t","e">>
      [] id = "4_02_og_title" ->
           <<"4","_","0","2","_","o","g","_","t","i","t","l","e">>
      [] id = "4_08_twitter_card" ->
           <<"4","_","0","8","_","t","w","i","t","t","e","r","_","c","a","r","d">>

\* s.startsWith(p)
StartsWith(s, p) == Len(p) <= Len(s) /\ SubSeq(s, 1, Len(p)) = p
\* s.includes(p)
Includes(s, p) == \E i \in 1..(Len(s) - Len(p) + 1) : SubSeq(s, i, i + Len(p) - 1) = p

\* content.replace(anchor, anchor + t): t goes right after the first anchor
\* token; the text is returned as it was when no token is an anchor
InsertAfterFirst(d, S, t) ==
    IF S = {} THEN d
    ELSE SubSeq(d, 1, First(S)) \o <<t>> \o SubSeq(d, First(S) + 1, Len(d))
\* content.replace(/<\/head>/i, t + "</head>")
InsertBeforeFirst(d, S, t) ==
    IF S = {} THEN d
    ELSE SubSeq(d, 1, First(S) - 1) \o <<t>> \o SubSeq(d, First(S), Len(d))

HeadAnchors(d) == {i \in 1..Len(d) : d[i].k = "head"}                     \* /<head>/i
TitleEndAnchors(d) == {i \in 1..Len(d) : d[i].k \in {"title", "title_uc"}} \* /<\/title>/i
HeadEndAnchors(d) == {i \in 1..Len(d) : d[i].k = "head_end"}              \* /<\/head>/i
HtmlAnchors(d) == {i \in 1..Len(d) : d[i].k \in {"html", "html_lang"}}    \* /<html/i

\* content.replace(/<html/i, '<html lang="en"')
AddLang(d) ==
    IF HtmlAnchors(d) = {} THEN d
    ELSE [d EXCEPT ![First(HtmlAnchors(d))] = T_htmlLang(S_en)]

\* one taken route: the new text and the change description pushed
Routed(st, id, newContent, what, arg) ==
    [content |-> newContent,
     changes |-> Append(st.changes, [what |-> what, arg |-> arg]),
     ins |-> st.ins + (IF newContent # st.content THEN 1 ELSE 0),
     ids |-> Append(st.ids, id)]

RouteTitle(st, issue, dom, biz) ==
    LET titleText == OrElse(issue.fix_instruction,
                            OrElse(biz, S_Website) \o S_bar \o OrElse(dom, <<>>))
    IN  IF StartsWith(CheckIdText(issue.check_id), <<"2","_","0","1">>)
           /\ ~IncludesTitleOpen(st.content)
        THEN Routed(st, issue.check_id,
                    InsertAfterFirst(st.content, HeadAnchors(st.content), T_title(titleText)),
                    "Added title tag", titleText)
        ELSE st

RouteDescription(st, issue, biz) ==
    LET descText == OrElse(issue.fix_instruction, OrElse(biz, S_Website) \o S_desc_tail)
    IN  IF StartsWith(CheckIdText(issue.check_id), <<"2","_","0","2">>)
           /\ ~Present(extractMeta(st.content, S_description))
        THEN Routed(st, issue.check_id,
                    InsertAfterFirst(st.content, TitleEndAnchors(st.content),
                                     T_metaName(S_description, descText)),
                    "Added meta description", <<>>)
        ELSE st

RouteCanonical(st, issue, dom) ==
    LET canonical == IF Truthy(dom) THEN S_https \o dom \o S_slash
                     ELSE issue.fix_instruction
    IN  IF StartsWith(CheckIdText(issue.check_id), <<"1","_","0","6">>)
           /\ ~hasCanonical(st.content)
        THEN Routed(st, issue.check_id,
                    InsertAfterFirst(st.content, TitleEndAnchors(st.content),
                                     T_link("canonical", canonical)),
                    "Added canonical tag", canonical)
        ELSE st

RouteRobots(st, issue) ==
    IF StartsWith(CheckIdText(issue.check_id), <<"1","_","0","7">>)
       /\ ~Present(extractMeta(st.content, S_robots))
    THEN Routed(st, issue.check_id,
                InsertAfterFirst(st.content, TitleEndAnchors(st.content),
                                 T_metaName(S_robots, S_index_follow)),
                "Added meta robots: index, follow", <<>>)
    ELSE st

RouteViewport(st, issue) ==
    IF StartsWith(CheckIdText(issue.check_id), <<"1","_","1","3">>)
       /\ ~Present(extractMeta(st.content, S_viewport))
    THEN Routed(st, issue.check_id,
                InsertAfterFirst(st.content, HeadAnchors(st.content),
                                 T_metaName(S_viewport, S_viewport_content)),
                "Added viewport meta tag", <<>>)
    ELSE st

RouteCharset(st, issue) ==
    IF StartsWith(CheckIdText(issue.check_id), <<"1","_","1","4">>)
       /\ ~IncludesCharset(st.content)
    THEN Routed(st, issue.check_id,
                InsertAfterFirst(st.content, HeadAnchors(st.content), T_charset(S_UTF8)),
                "Added charset UTF-8", <<>>)
    ELSE st

RouteOg(st, issue) ==
    LET ogProp == SplitHead(issue.fix_instruction)
        ogValue == Trim(SplitRest(issue.fix_instruction))
    IN  IF StartsWith(CheckIdText(issue.check_id), <<"4","_">>)
           /\ Includes(CheckIdText(issue.check_id), <<"o","g","_">>)
           /\ Truthy(ogProp) /\ ~Present(extractMeta(st.content, ogProp))
           /\ Truthy(ogValue)
        THEN Routed(st, issue.check_id,
                    InsertBeforeFirst(st.content, HeadEndAnchors(st.content),
                                      T_metaProp(ogProp, ogValue)),
                    "Added tag", ogProp)
        ELSE st

RouteLang(st, issue) ==
    IF StartsWith(CheckIdText(issue.check_id), <<"1","_","1","5">>)
       /\ ~HasLangAttr(st.content)
    THEN Routed(st, issue.check_id, AddLang(st.content), "Added lang=en to <html>", <<>>)
    ELSE st

\* a variant that records an issue no route changed anything for
ApplyIssueLogsUnknown(st, issue, dom, biz) ==
    LET out == RouteLang(RouteOg(RouteCharset(RouteViewport(RouteRobots(
                 RouteCanonical(RouteDescription(RouteTitle(st, issue, dom, biz),
                                                 issue, biz),
                                issue, dom), issue), issue), issue), issue), issue)
    IN  IF out = st
        THEN [st EXCEPT !.changes = Append(@, [what |-> "Skipped", arg |-> <<>>])]
        ELSE out

\* the body of the loop over the issues: the eight guarded routes, in order
ApplyIssue(st, issue, dom, biz) ==
    RouteLang(
      RouteOg(
        RouteCharset(
          RouteViewport(
            RouteRobots(
              RouteCanonical(
                RouteDescription(
                  RouteTitle(st, issue, dom, biz),
                  issue, biz),
                issue, dom),
              issue),
            issue),
          issue),
        issue),
      issue)

\* a variant that serves the last issue first
RECURSIVE ApplyIssuesRightToLeft(_, _, _, _)
ApplyIssuesRightToLeft(st, list, dom, biz) ==
    IF list = <<>> THEN st
    ELSE ApplyIssue(ApplyIssuesRightToLeft(st, Tail(list), dom, biz), Head(list), dom, biz)

RECURSIVE ApplyIssues(_, _, _, _)
ApplyIssues(st, list, dom, biz) ==
    IF list = <<>> THEN st
    ELSE ApplyIssues(ApplyIssue(st, Head(list), dom, biz), Tail(list), dom, biz)

\* the loop of fixSeoIssues over content read from the file
Remediate(content, list, dom, biz) ==
    ApplyIssues([content |-> content, changes |-> <<>>, ins |-> 0, ids |-> <<>>],
                list, dom, biz)

NoReturn == [kind |-> "none", changes |-> <<>>]

\* one call of fixSeoIssues with the arguments of this run
FixSeoIssues ==
    /\ runs < MaxRuns
    /\ runs' = runs + 1
    /\ prevFile' = file
    /\ IF ~fileExists
       THEN /\ ret' = [kind |-> "File not found", changes |-> <<>>]
            /\ inserted' = 0
            /\ loggedIds' = <<>>
            /\ UNCHANGED file
       ELSE LET out == Remediate(file, issues, domain, businessName)
            IN  /\ file' = out.content
                /\ ret' = [kind |-> "ok", changes |-> out.changes]
                /\ inserted' = out.ins
                /\ loggedIds' = out.ids
    /\ UNCHANGED <<fileExists, issues, domain, businessName>>
    /\ UNCHANGED auditVars
    /\ UNCHANGED <<loadVars, runVars, rmwVars, buildVars, deployVars>>

(***************************************************************************)
(* The remediation specification: a stored document and one caller that    *)
(* repeats the same fixSeoIssues call.                                     *)
(***************************************************************************)
BoundedSeq(S, n) == UNION {[1..m -> S] : m \in 0..n}

FixTokens == {T_html, T_head, T_headEnd, T_title(S_Hi), T_metaName(S_description, <<>>)}

Issue(id, text) == [check_id |-> id, fix_instruction |-> text]
FixIssueSet ==
    {Issue(id, <<>>) : id \in {"2_01_title_tag", "2_02_meta_description",
                               "1_06_canonical_tags", "1_07_meta_robots",
                               "1_13_viewport_meta", "1_14_charset",
                               "1_15_lang_attribute"}}
    \cup {Issue("4_02_og_title", S_og_title_Hi), Issue("4_02_og_title", S_og_blank),
          Issue("4_08_twitter_card", S_og_title_Hi)}

AuditIdle ==
    /\ url = "https"
    /\ html = <<>>
    /\ headers = <<>>
    /\ robotsTxt = ""
    /\ sitemapXml = ""
    /\ cachedChecklist = <<>>
    /\ audit = NoAudit

InitFix ==
    /\ AuditIdle /\ LoadIdle /\ RunIdle /\ RmwIdle /\ BuildIdle /\ DeployIdle
    /\ fileExists \in BOOLEAN
    /\ file \in BoundedSeq(FixTokens, MaxFixDocLen)
    /\ (~fileExists => file = <<>>)
    /\ issues \in BoundedSeq(FixIssueSet, MaxIssues)
    /\ \E ctx \in {<<<<>>, <<>>>>, <<S_a_io, S_Hi>>} :
          domain = ctx[1] /\ businessName = ctx[2]
    /\ ret = NoReturn
    /\ runs = 0
    /\ prevFile = file
    /\ inserted = 0
    /\ loggedIds = <<>>

NextFix == FixSeoIssues

SpecFix == InitFix /\ [][NextFix]_vars

(***************************************************************************)
(* The audit specification: the artifacts one audit fetched, then the      *)
(* report auditWebsite builds from them.                                   *)
(***************************************************************************)
T_form == T_elem({"<form ", "<form"})
T_label == T_elem({"<label "})

AuditTokens == {T_title(Rep(45)), T_title(Rep(10)), T_img(<<>>, {}),
                T_img(S_Hi, {"dims", "lazy"}), T_h("1"), T_h("2"), T_form, T_label,
                T_metaProp(S_og_title, S_Hi), T_jsonld("Organization")}

AuditHeaders == {<<>>,
                 ("strict-transport-security" :> "max-age=31536000")
                     @@ ("content-encoding" :> "gzip")}

\* a ChecklistItem; the file records a status of its own for every item
Def(check, priority, hint) ==
    [check |-> check, priority |-> priority, how_to_fix |-> hint, status |-> "done"]
Entry(label, hasItems, items) == [label |-> label, hasItems |-> hasItems, items |-> items]

\* a checklist file giving the organization-schema check priority p and the
\* CSP check priority q
ChecklistJson(p, q) ==
    ("version" :> Entry("", FALSE, <<>>))
    @@ ("0_website_builder_system" :> Entry("Builder", FALSE, <<>>))
    @@ ("1_technical_seo" :>
           Entry("Technical SEO", TRUE,
                 ("1_01_https" :> Def("HTTPS enabled", "low", "Install an SSL certificate"))))
    @@ ("3_structured_data_schema" :>
           Entry("Structured Data", TRUE,
                 ("3_01_organization_schema" :> Def("Organization Schema", p, "Add JSON-LD"))))
    @@ ("8_security" :> Entry("", TRUE, ("8_07_csp" :> Def("", q, ""))))

AuditChecklists ==
    {NullChecklist} \cup
    {Loaded(ChecklistJson(pq[1], pq[2])) :
        pq \in {<<"critical", "medium">>, <<"low", "urgent">>, <<"urgent", "">>}}

FixIdle ==
    /\ fileExists = FALSE
    /\ file = <<>>
    /\ issues = <<>>
    /\ domain = <<>>
    /\ businessName = <<>>
    /\ ret = NoReturn
    /\ runs = 0
    /\ prevFile = <<>>
    /\ inserted = 0
    /\ loggedIds = <<>>

InitAudit ==
    /\ FixIdle /\ LoadIdle /\ RunIdle /\ RmwIdle /\ BuildIdle /\ DeployIdle
    /\ url \in {"https", "http"}
    /\ html \in BoundedSeq(AuditTokens, MaxAuditDocLen)
    /\ headers \in AuditHeaders
    /\ robotsTxt \in {"", "User-agent: *"}
    /\ sitemapXml \in {"", "<urlset/>"}
    /\ cachedChecklist \in AuditChecklists
    /\ audit = NoAudit

NextAudit == AuditWebsite

SpecAudit == InitAudit /\ [][NextAudit]_vars

(***************************************************************************)
(* The page specification: short documents of the markers the thresholds,  *)
(* the counts and the routes look at, audited without checklist sections.  *)
(***************************************************************************)
MaxPageDocLen == 2

PageTokens ==
    {T_title(<<>>), T_title(Rep(29)), T_title(Rep(30)), T_title(Rep(70)),
     T_title(Rep(71)), T_TITLE(Rep(45)),
     T_metaName(S_description, <<>>), T_metaName(S_description, Rep(99)),
     T_metaName(S_description, Rep(100)), T_metaName(S_description, Rep(170)),
     T_metaName(S_description, Rep(171)),
     T_img(<<>>, {}), T_img(S_Hi, {"dims"}), T_img(<<>>, {"dims", "dims_hw"}),
     T_html, T_htmlLang(S_en), T_htmlLang(<<>>),
     T_charset(S_UTF8), T_charset(S_latin1),
     T_link("canonical", S_a_io),
     T_metaName(S_viewport, <<>>), T_metaName(S_robots, S_index_follow)}

\* a file that parses and holds no section with items
NoSectionsJson ==
    ("version" :> Entry("", FALSE, <<>>))
    @@ ("0_website_builder_system" :> Entry("Builder", FALSE, <<>>))
    @@ ("1_technical_seo" :> Entry("Technical SEO", FALSE, <<>>))

InitPage ==
    /\ FixIdle /\ LoadIdle /\ RunIdle /\ RmwIdle /\ BuildIdle /\ DeployIdle
    /\ url = "https"
    /\ html \in BoundedSeq(PageTokens, MaxPageDocLen)
    /\ headers = <<>>
    /\ robotsTxt = "" /\ sitemapXml = ""
    /\ cachedChecklist \in {NullChecklist, Loaded(NoSectionsJson)}
    /\ audit = NoAudit

NextPage == AuditWebsite

SpecPage == InitPage /\ [][NextPage]_vars

(***************************************************************************)
(* loadChecklist.  A candidate path is "unset" (its environment variable   *)
(* is not set, so the path is never pushed), "absent" (existsSync false),  *)
(* "malformed" (it exists, readFileSync or JSON.parse throws), "null" (it  *)
(* parses to a falsy JSON value) or "ok".  The checklist is configuration  *)
(* the process only reads: disk does not change while the process runs.    *)
(***************************************************************************)
MaxLoads == 2

\* the checklist a candidate file holds when it parses
CandidateJson(p) ==
    CASE p = "CHECKLIST_PATH" -> ChecklistJson("critical", "medium")
      [] p = "project" -> ChecklistJson("low", "urgent")
      [] p = "cwd" -> ChecklistJson("urgent", "")
      [] OTHER -> ChecklistJson("medium", "critical")

\* a variant that pushes the home fallback before the working directory
pathsToTryHomeFirst(d) ==
    (IF d["CHECKLIST_PATH"] # "unset" THEN <<"CHECKLIST_PATH">> ELSE <<>>)
        \o <<"project">>
        \o (IF d["home"] # "unset" THEN <<"home">> ELSE <<>>)
        \o <<"cwd">>

\* pathsToTry: the override when CHECKLIST_PATH is set, the project root, the
\* working directory, the home fallback when HOME is set
pathsToTry(d) ==
    (IF d["CHECKLIST_PATH"] # "unset" THEN <<"CHECKLIST_PATH">> ELSE <<>>)
        \o <<"project", "cwd">>
        \o (IF d["home"] # "unset" THEN <<"home">> ELSE <<>>)

\* for (const tryPath of pathsToTry): return at the first path that exists
\* and parses; an exception is caught and the loop goes on
RECURSIVE TryPaths(_, _, _, _)
TryPaths(paths, k, d, tried) ==
    IF k > Len(paths)
    THEN [value |-> NullChecklist, from |-> "none", tried |-> tried]
    ELSE LET tryPath == paths[k]
             seen == Append(tried, tryPath)
         IN  CASE d[tryPath] = "ok" ->
                     [value |-> Loaded(CandidateJson(tryPath)), from |-> tryPath,
                      tried |-> seen]
               [] d[tryPath] = "null" ->
                     [value |-> NullChecklist, from |-> tryPath, tried |-> seen]
               [] OTHER -> TryPaths(paths, k + 1, d, seen)

\* a variant whose cache hit returns nothing
loadChecklistDropsCache(cache, d) ==
    IF cache.loaded THEN [value |-> NullChecklist, from |-> "cache", tried |-> <<>>]
    ELSE TryPaths(pathsToTry(d), 1, d, <<>>)

\* loadChecklist(): the cached value when there is one, else the search; the
\* value found is cached (a null stays a null, so the next call searches again)
loadChecklist(cache, d) ==
    IF cache.loaded THEN [value |-> cache, from |-> "cache", tried |-> <<>>]
    ELSE TryPaths(pathsToTry(d), 1, d, <<>>)

LoadChecklist ==
    /\ loads < MaxLoads
    /\ loads' = loads + 1
    /\ LET r == loadChecklist(cachedChecklist, disk)
       IN  /\ cachedChecklist' = r.value
           /\ consulted' = r.tried
           /\ loadedFrom' = r.from
    /\ UNCHANGED <<disk, url, html, headers, robotsTxt, sitemapXml, audit>>
    /\ UNCHANGED <<fixVars, runVars, rmwVars, buildVars, deployVars>>

\* the states of the four candidate paths
DiskStates ==
    {d \in [{"CHECKLIST_PATH", "project", "cwd", "home"} ->
               {"unset", "absent", "malformed", "null", "ok"}] :
        d["project"] # "unset" /\ d["cwd"] # "unset"}

InitLoad ==
    /\ FixIdle /\ RunIdle /\ RmwIdle /\ BuildIdle /\ DeployIdle
    /\ url = "https" /\ html = <<>> /\ headers = <<>>
    /\ robotsTxt = "" /\ sitemapXml = ""
    /\ audit = NoAudit
    /\ cachedChecklist = NullChecklist
    /\ disk \in DiskStates
    /\ loads = 0
    /\ consulted = <<>>
    /\ loadedFrom = ""

NextLoad == LoadChecklist

SpecLoad == InitLoad /\ [][NextLoad]_vars

\* the candidate paths in the order the specification gives them
CandidateOrder == <<"CHECKLIST_PATH", "project", "cwd", "home">>
\* the candidates of CandidateOrder whose state is in S, in order
CandidatesIn(S) == SelectSeq(CandidateOrder, LAMBDA p : disk[p] \in S)
\* the position of a path in the last call's search, 0 when it was not tested
ConsultedAt(p) ==
    IF \E k \in 1..Len(consulted) : consulted[k] = p
    THEN CHOOSE k \in 1..Len(consulted) : consulted[k] = p
    ELSE 0

\* C20 as stated: a search takes its value from the first candidate that
\* exists, in the order override, project, working directory, home, and
\* tests no candidate after that one.
C20_FirstExistingWins ==
    (loads > 0 /\ loadedFrom # "cache") =>
        LET existing == CandidatesIn({"malformed", "null", "ok"})
        IN  IF existing = <<>> THEN loadedFrom = "none"
            ELSE /\ loadedFrom \in {existing[1], "none"}
                 /\ consulted[Len(consulted)] = existing[1]

\* C20 amended: a search tests the candidates in the order override, project,
\* working directory, home; it uses the content of the first one that exists
\* and parses and tests none after it; a candidate that exists but cannot be
\* read or parsed is passed over like an absent one.
C20_FirstParsingWins ==
    (loads > 0 /\ loadedFrom # "cache") =>
        LET set == CandidatesIn({"absent", "malformed", "null", "ok"})
            parsing == CandidatesIn({"null", "ok"})
        IN  /\ \A k \in 1..Len(consulted) : consulted[k] = set[k]
            /\ IF parsing = <<>>
               THEN /\ loadedFrom = "none"
                    /\ consulted = set
                    /\ ~cachedChecklist.loaded
               ELSE /\ loadedFrom = parsing[1]
                    /\ consulted[Len(consulted)] = parsing[1]
                    /\ cachedChecklist =
                           (IF disk[parsing[1]] = "ok"
                            THEN Loaded(CandidateJson(parsing[1]))
                            ELSE NullChecklist)
\* a search that passed over a malformed override and an absent project file
\* and stopped at the working-directory file although the home file exists
C20_Witness ==
    /\ loads > 0
    /\ disk["CHECKLIST_PATH"] = "malformed" /\ disk["project"] = "absent"
    /\ disk["cwd"] = "ok" /\ disk["home"] = "ok"
    /\ loadedFrom = "cwd"
    /\ consulted = <<"CHECKLIST_PATH", "project", "cwd">>

(***************************************************************************)
(* auditWebsite as invocations of one process.  A call runs to its await,  *)
(* the three fetches settle in any order, and the continuation runs when   *)
(* Promise.all has settled.  Invocations are numbered in call order.       *)
(***************************************************************************)
MaxAudits == 2

S_http == <<"h","t","t","p">>
S_httpd_io == <<"h","t","t","p","d",".","i","o">>
S_http_a_io == <<"h","t","t","p",":","/","/","a",".","i","o">>

\* if (!url.startsWith("http")) url = "https://" + url
NormalizeUrl(u) == IF StartsWith(u, S_http) THEN u ELSE S_https \o u

\* new URL(url) throws a TypeError unless the text starts with a scheme: a
\* letter, then letters, digits, "+", "-" or ".", then ":"
SchemeChars ==
    {"a","b","c","d","e","f","g","h","i","j","k","l","m","n","o","p","q","r","s",
     "t","u","v","w","x","y","z","+","-","."}
HasScheme(u) ==
    \E k \in 2..Len(u) :
        /\ u[k] = ":"
        /\ u[1] \in SchemeChars \ {"+", "-", "."}
        /\ \A j \in 1..(k - 1) : u[j] \in SchemeChars

\* url.startsWith("https://"), as the evaluators read the URL
SchemeOf(u) == IF StartsWith(u, S_https) THEN "https" ELSE "http"

\* what the site answers with when the page is reachable
SiteHtml == <<T_title(Rep(45)), T_h("1")>>
SiteHeaders == ("content-encoding" :> "gzip")

Pending == [state |-> "pending"]
Fulfilled(v) == [state |-> "fulfilled", value |-> v]
Rejected(e) == [state |-> "rejected", reason |-> e]

\* a variant that swallows the transport error and resolves with an empty page
fetchPageSwallows(u, outcome) ==
    IF outcome = "ECONNREFUSED"
    THEN Fulfilled([html |-> <<>>, headers |-> <<>>])
    ELSE Fulfilled([html |-> SiteHtml, headers |-> SiteHeaders])

\* fetchPage: validateStatus accepts every status; a transport error is
\* rethrown as Error(`Failed to fetch ${url}: ${err.message}`)
fetchPage(u, outcome) ==
    IF outcome = "ECONNREFUSED"
    THEN Rejected([what |-> "Failed to fetch", url |-> u, cause |-> outcome])
    ELSE Fulfilled([html |-> SiteHtml, headers |-> SiteHeaders])

\* a variant that lets the failure of an auxiliary fetch propagate
fetchOptionalThrows(outcome) ==
    IF outcome = "200" THEN Fulfilled("User-agent: *")
    ELSE Rejected([what |-> "Request failed", url |-> <<>>, cause |-> outcome])

\* fetchOptional: the body when the status is below 400, null ("") on a
\* status of 400 or more, a timeout or any other failure
fetchOptional(outcome) ==
    IF outcome = "200" THEN Fulfilled("User-agent: *") ELSE Fulfilled("")

PageOutcomes == {"200", "ECONNREFUSED"}
RobotsOutcomes == {"200", "404"}
\* the site serves a sitemap over https only; over http the request times out
SitemapOutcomeAt(u) == IF SchemeOf(u) = "https" THEN "200" ELSE "timeout"
Subjects == {S_a_io, S_httpd_io, S_http_a_io}

NoError == [what |-> "", url |-> <<>>, cause |-> ""]
IdleCall ==
    [pc |-> "idle", subject |-> <<>>, url |-> <<>>,
     pageOutcome |-> "pending", robotsOutcome |-> "pending",
     sitemapOutcome |-> "pending",
     page |-> Pending, robots |-> Pending, sitemap |-> Pending,
     all |-> Pending, result |-> NoAudit, error |-> NoError]

\* Promise.all: rejected by the first rejection, fulfilled when all three are
PromiseAll(c) ==
    IF c.all.state # "pending" THEN c.all
    ELSE IF c.page.state = "rejected" THEN c.page
    ELSE IF c.robots.state = "rejected" THEN c.robots
    ELSE IF c.sitemap.state = "rejected" THEN c.sitemap
    ELSE IF c.page.state = "fulfilled" /\ c.robots.state = "fulfilled"
            /\ c.sitemap.state = "fulfilled"
         THEN Fulfilled([pageData |-> c.page.value, robotsTxt |-> c.robots.value,
                         sitemapXml |-> c.sitemap.value])
    ELSE Pending

\* auditWebsite(url) up to its await: normalize, parse, issue the three fetches
Call(i, subject) ==
    /\ audits[i].pc = "idle"
    /\ i > 1 => audits[i - 1].pc # "idle"
    /\ LET u == NormalizeUrl(subject)
       IN  audits' = [audits EXCEPT ![i] =
               IF HasScheme(u)
               THEN [@ EXCEPT !.pc = "awaiting", !.subject = subject, !.url = u]
               ELSE [@ EXCEPT !.pc = "threw", !.subject = subject, !.url = u,
                              !.error = [what |-> "TypeError: Invalid URL",
                                         url |-> u, cause |-> ""]]]
    /\ UNCHANGED <<auditVars, fixVars, loadVars, rmwVars, buildVars, deployVars>>

\* one fetch of an awaiting call settles; Promise.all follows
Settled(c) == [c EXCEPT !.all = PromiseAll(c)]

SettlePage(i, outcome) ==
    /\ audits[i].pc = "awaiting" /\ audits[i].pageOutcome = "pending"
    /\ audits' = [audits EXCEPT ![i] =
           Settled([@ EXCEPT !.pageOutcome = outcome,
                             !.page = fetchPage(audits[i].url, outcome)])]
    /\ UNCHANGED <<auditVars, fixVars, loadVars, rmwVars, buildVars, deployVars>>

SettleRobots(i, outcome) ==
    /\ audits[i].pc = "awaiting" /\ audits[i].robotsOutcome = "pending"
    /\ audits' = [audits EXCEPT ![i] =
           Settled([@ EXCEPT !.robotsOutcome = outcome,
                             !.robots = fetchOptional(outcome)])]
    /\ UNCHANGED <<auditVars, fixVars, loadVars, rmwVars, buildVars, deployVars>>

SettleSitemap(i) ==
    /\ audits[i].pc = "awaiting" /\ audits[i].sitemapOutcome = "pending"
    /\ audits' = [audits EXCEPT ![i] =
           Settled([@ EXCEPT !.sitemapOutcome = SitemapOutcomeAt(audits[i].url),
                             !.sitemap = fetchOptional(SitemapOutcomeAt(audits[i].url))])]
    /\ UNCHANGED <<auditVars, fixVars, loadVars, rmwVars, buildVars, deployVars>>

\* a variant in which url is a module-level variable, written by the latest call
SnapshotOfLatestCall(a, i) ==
    LET called == {j \in DOMAIN a : a[j].pc # "idle"}
        latest == CHOOSE j \in called : \A k \in called : k <= j
    IN  [a[i] EXCEPT !.url = a[latest].url]

\* the locals of invocation i: url and the values Promise.all resolved to
Snapshot(a, i) == a[i]

\* the report the continuation builds from a call's locals under checklist cl
ReportOf(c, cl) ==
    [AuditResult(c.all.value.pageData.html, c.all.value.pageData.headers,
                 SchemeOf(c.url), c.all.value.robotsTxt, c.all.value.sitemapXml, cl)
        EXCEPT !.url = c.url]

\* the continuation after the await: the rejection is thrown, or the
\* evaluators run (each reads the checklist through loadChecklist) and the
\* report is returned
Resume(i) ==
    /\ audits[i].pc = "awaiting" /\ audits[i].all.state # "pending"
    /\ IF audits[i].all.state = "rejected"
       THEN /\ audits' = [audits EXCEPT ![i] =
                   [@ EXCEPT !.pc = "threw", !.error = audits[i].all.reason]]
            /\ UNCHANGED cachedChecklist
       ELSE LET cl == loadChecklist(cachedChecklist, disk).value
            IN  /\ audits' = [audits EXCEPT ![i] =
                       [@ EXCEPT !.pc = "returned",
                                 !.result = ReportOf(Snapshot(audits, i), cl)]]
                /\ cachedChecklist' = cl
    /\ UNCHANGED <<url, html, headers, robotsTxt, sitemapXml, audit>>
    /\ UNCHANGED <<fixVars, loadVars, rmwVars, buildVars, deployVars>>

\* another operation of the process that reads the checklist
GetCategoryTemplate ==
    /\ cachedChecklist' = loadChecklist(cachedChecklist, disk).value
    /\ cachedChecklist' # cachedChecklist
    /\ UNCHANGED <<url, html, headers, robotsTxt, sitemapXml, audit>>
    /\ UNCHANGED <<fixVars, loadVars, runVars, rmwVars, buildVars, deployVars>>

\* the checklist is found in the working directory
RunDisks ==
    {d \in DiskStates :
        /\ d["CHECKLIST_PATH"] = "unset" /\ d["project"] = "absent"
        /\ d["home"] = "unset" /\ d["cwd"] = "ok"}

InitRun ==
    /\ FixIdle /\ RmwIdle /\ BuildIdle /\ DeployIdle
    /\ url = "https" /\ html = <<>> /\ headers = <<>>
    /\ robotsTxt = "" /\ sitemapXml = ""
    /\ audit = NoAudit
    /\ cachedChecklist = NullChecklist
    /\ disk \in RunDisks
    /\ loads = 0 /\ consulted = <<>> /\ loadedFrom = ""
    /\ audits = [i \in 1..MaxAudits |-> IdleCall]

NextRun ==
    \/ \E i \in 1..MaxAudits : \E subject \in Subjects : Call(i, subject)
    \/ \E i \in 1..MaxAudits : \E o \in PageOutcomes : SettlePage(i, o)
    \/ \E i \in 1..MaxAudits : \E o \in RobotsOutcomes : SettleRobots(i, o)
    \/ \E i \in 1..MaxAudits : SettleSitemap(i)
    \/ \E i \in 1..MaxAudits : Resume(i)
    \/ GetCategoryTemplate

SpecRun == InitRun /\ [][NextRun]_vars

(***************************************************************************)
(* The invocation specification of fixSeoIssues: the calls one process     *)
(* makes on stored files, each followed through its fs calls.              *)
(***************************************************************************)
MaxFixCalls == 2

Paths == {"a.html", "b.html"}
Absent == [exists |-> FALSE, text |-> <<>>]
File(text) == [exists |-> TRUE, text |-> text]

\* fs.existsSync(filePath)
ExistsSyncAlwaysTrue(d, p) == TRUE
ExistsSync(d, p) == d[p].exists

\* fs.readFileSync(filePath, "utf-8"): the text, or an ENOENT error
ReadFileSync(d, p) ==
    IF d[p].exists THEN [ok |-> TRUE, text |-> d[p].text]
    ELSE [ok |-> FALSE, text |-> <<>>]

\* the positions at which fixSeoIssues suspends and lets other code of the
\* process run: its body holds no await
AwaitPointsAfterRead == {"read"}
AwaitPoints == {}

\* who is on the call stack once invocation i has reached position pos
After(pos, i) == IF pos \in AwaitPoints THEN 0 ELSE i
\* invocation i may take its next step
CanStep(i) ==
    \/ running = i
    \/ running = 0 /\ fixCalls[i].pc \in AwaitPoints

NoFixError == [what |-> "", path |-> ""]
NoFixReturn == [original_size |-> 0, fixed_size |-> 0, changes |-> <<>>]
IdleFixCall ==
    [pc |-> "idle", filePath |-> "", issues |-> <<>>, content |-> <<>>,
     readText |-> <<>>, changes |-> <<>>, ids |-> <<>>, k |-> 0,
     error |-> NoFixError, ret |-> NoFixReturn]

FsCall(op, i, p, k) == [op |-> op, by |-> i, path |-> p, k |-> k]

\* the call and its existence test: throw, or go on to the read
EnterFix(i, p, list) ==
    /\ running = 0
    /\ fixCalls[i].pc = "idle"
    /\ i > 1 => fixCalls[i - 1].pc # "idle"
    /\ fsLog' = Append(fsLog, FsCall("existsSync", i, p, 0))
    /\ IF ~ExistsSync(docs, p)
       THEN /\ fixCalls' = [fixCalls EXCEPT ![i] =
                   [@ EXCEPT !.pc = "threw", !.filePath = p, !.issues = list,
                             !.error = [what |-> "File not found", path |-> p]]]
            /\ running' = 0
       ELSE /\ fixCalls' = [fixCalls EXCEPT ![i] =
                   [@ EXCEPT !.pc = "checked", !.filePath = p, !.issues = list]]
            /\ running' = After("checked", i)
    /\ UNCHANGED docs
    /\ UNCHANGED <<auditVars, fixVars, loadVars, runVars, buildVars, deployVars>>

\* let content = fs.readFileSync(filePath, "utf-8")
ReadFix(i) ==
    /\ CanStep(i)
    /\ fixCalls[i].pc = "checked"
    /\ LET r == ReadFileSync(docs, fixCalls[i].filePath)
       IN  /\ fsLog' = Append(fsLog, FsCall("readFileSync", i, fixCalls[i].filePath, 0))
           /\ IF r.ok
              THEN /\ fixCalls' = [fixCalls EXCEPT ![i] =
                          [@ EXCEPT !.pc = "read", !.content = r.text,
                                    !.readText = r.text]]
                   /\ running' = After("read", i)
              ELSE /\ fixCalls' = [fixCalls EXCEPT ![i] =
                          [@ EXCEPT !.pc = "threw",
                                    !.error = [what |-> "ENOENT",
                                               path |-> fixCalls[i].filePath]]]
                   /\ running' = 0
    /\ UNCHANGED docs
    /\ UNCHANGED <<auditVars, fixVars, loadVars, runVars, buildVars, deployVars>>

\* one turn of the loop over the issues
ApplyFix(i) ==
    /\ CanStep(i)
    /\ fixCalls[i].pc = "read"
    /\ fixCalls[i].k < Len(fixCalls[i].issues)
    /\ LET c == fixCalls[i]
           out == ApplyIssue([content |-> c.content, changes |-> c.changes,
                              ins |-> 0, ids |-> c.ids],
                             c.issues[c.k + 1], <<>>, <<>>)
       IN  fixCalls' = [fixCalls EXCEPT ![i] =
               [@ EXCEPT !.content = out.content, !.changes = out.changes,
                         !.ids = out.ids, !.k = c.k + 1]]
    /\ running' = After("read", i)
    /\ UNCHANGED <<docs, fsLog>>
    /\ UNCHANGED <<auditVars, fixVars, loadVars, runVars, buildVars, deployVars>>

\* fs.writeFileSync(filePath, content, "utf-8") and the return
WriteFix(i) ==
    /\ CanStep(i)
    /\ fixCalls[i].pc = "read"
    /\ fixCalls[i].k = Len(fixCalls[i].issues)
    /\ docs' = [docs EXCEPT ![fixCalls[i].filePath] = File(fixCalls[i].content)]
    /\ fsLog' = Append(fsLog, FsCall("writeFileSync", i, fixCalls[i].filePath,
                                     fixCalls[i].k))
    /\ fixCalls' = [fixCalls EXCEPT ![i] =
           [@ EXCEPT !.pc = "returned",
                     !.ret = [original_size |-> Len(fixCalls[i].readText),
                              fixed_size |-> Len(fixCalls[i].content),
                              changes |-> fixCalls[i].changes]]]
    /\ running' = 0
    /\ UNCHANGED <<auditVars, fixVars, loadVars, runVars, buildVars, deployVars>>

RmwDocs == {Absent, File(<<>>), File(<<T_head>>)}
RmwIssueLists ==
    {<<>>,
     <<Issue("2_01_title_tag", <<>>)>>,
     <<Issue("2_03_h1_tag", <<>>)>>,
     <<Issue("2_03_h1_tag", <<>>), Issue("2_01_title_tag", <<>>)>>,
     <<Issue("1_14_charset", <<>>), Issue("4_08_twitter_card", S_og_title_Hi)>>}

InitRmw ==
    /\ AuditIdle /\ FixIdle /\ LoadIdle /\ RunIdle /\ BuildIdle /\ DeployIdle
    /\ docs \in [Paths -> RmwDocs]
    /\ fixCalls = [i \in 1..MaxFixCalls |-> IdleFixCall]
    /\ running = 0
    /\ fsLog = <<>>

NextRmw ==
    \/ \E i \in 1..MaxFixCalls : \E p \in Paths : \E list \in RmwIssueLists :
          EnterFix(i, p, list)
    \/ \E i \in 1..MaxFixCalls : ReadFix(i)
    \/ \E i \in 1..MaxFixCalls : ApplyFix(i)
    \/ \E i \in 1..MaxFixCalls : WriteFix(i)

SpecRmw == InitRmw /\ [][NextRmw]_vars

(***************************************************************************)
(* The site builder: resolveTemplate over the cached checklist.  Of a       *)
(* category template only the colour scheme is kept.                       *)
(***************************************************************************)
MaxBuilds == 2

Scheme(primary, secondary, dark) ==
    [primary |-> primary, secondary |-> secondary, dark |-> dark]

\* the colour scheme of the fallback template of resolveTemplate
FallbackScheme == Scheme("#333333", "#007bff", "#1a1a2e")

\* category_templates as the checklist file gives them
FileTemplates ==
    ("restaurant" :> Scheme("#c0392b", "#f39c12", "#2c3e50"))
    @@ ("dental_clinic" :> Scheme("#0077b6", "#00b4d8", "#03045e"))

\* a checklist whose builder entry carries category templates
TemplatesJson(templates) ==
    ("0_website_builder_system" :>
        [label |-> "Builder", hasItems |-> FALSE, items |-> <<>>,
         category_templates |-> templates])
    @@ ("1_technical_seo" :> Entry("Technical SEO", FALSE, <<>>))

\* checklist?.["0_website_builder_system"]?.category_templates, then
\* templates[category] || null; the checklist is the cached one when loaded
getCategoryTemplate(cl, category) ==
    IF ~cl.loaded THEN None
    ELSE IF "0_website_builder_system" \notin DOMAIN cl.json THEN None
    ELSE LET builder == cl.json["0_website_builder_system"]
         IN  IF "category_templates" \notin DOMAIN builder THEN None
             ELSE IF category \notin DOMAIN builder.category_templates THEN None
             ELSE Some(builder.category_templates[category])

\* config.brand_colors: an absent object or field reads as undefined, which
\* is falsy like the empty string
NoBrandColors == [primary |-> "", secondary |-> ""]
BrandColors ==
    {NoBrandColors,
     [primary |-> "#ff0000", secondary |-> ""],
     [primary |-> "", secondary |-> "#00ff00"],
     [primary |-> "#ff0000", secondary |-> "#00ff00"]}
Categories == {"restaurant", "dental_clinic", "plumber"}

\* resolveTemplate(config): the template used, and the cached checklist after
\* the call.  The template found is the object inside the cached checklist,
\* and the custom colours are assigned to its fields
resolveTemplate(cl, category, brand) ==
    LET found == getCategoryTemplate(cl, category)
    IN  IF ~found.some THEN [template |-> FallbackScheme, cache |-> cl]
        ELSE LET template == [found.v EXCEPT
                                 !.primary = OrStr(brand.primary, @),
                                 !.secondary = OrStr(brand.secondary, @)]
             IN  [template |-> template,
                  cache |-> [cl EXCEPT
                      !.json["0_website_builder_system"].category_templates[category]
                          = template]]

\* the entry of the build history for one call
BuildRecord(tool, category, brand, template) ==
    [tool |-> tool, category |-> category, brand_colors |-> brand,
     color_scheme |-> template]

\* the build_website tool: buildWebsite(config)
BuildWebsite ==
    \E category \in Categories, brand \in BrandColors :
        LET r == resolveTemplate(cachedChecklist, category, brand)
        IN  /\ Len(builds) < MaxBuilds
            /\ builds' = Append(builds, BuildRecord("build_website", category, brand,
                                                    r.template))
            /\ cachedChecklist' = r.cache
            /\ UNCHANGED <<url, html, headers, robotsTxt, sitemapXml, audit>>
            /\ UNCHANGED <<fixVars, loadVars, runVars, rmwVars, deployVars>>

\* the generate_page tool: generatePage builds a BuildConfig without
\* brand_colors
GeneratePage ==
    \E category \in Categories :
        LET r == resolveTemplate(cachedChecklist, category, NoBrandColors)
        IN  /\ Len(builds) < MaxBuilds
            /\ builds' = Append(builds, BuildRecord("generate_page", category,
                                                    NoBrandColors, r.template))
            /\ cachedChecklist' = r.cache
            /\ UNCHANGED <<url, html, headers, robotsTxt, sitemapXml, audit>>
            /\ UNCHANGED <<fixVars, loadVars, runVars, rmwVars, deployVars>>

InitBuild ==
    /\ FixIdle /\ LoadIdle /\ RunIdle /\ RmwIdle /\ DeployIdle
    /\ url = "https" /\ html = <<>> /\ headers = <<>>
    /\ robotsTxt = "" /\ sitemapXml = ""
    /\ audit = NoAudit
    /\ cachedChecklist \in {NullChecklist, Loaded(NoSectionsJson),
                            Loaded(TemplatesJson(FileTemplates))}
    /\ builds = <<>>

NextBuild == BuildWebsite \/ GeneratePage

SpecBuild == InitBuild /\ [][NextBuild]_vars

(***************************************************************************)
(* deployToHosting, one await at a time.  deploy.log lists the calls made  *)
(* on the ssh connection, deploy.remote the files under remote_path.       *)
(***************************************************************************)
MaxDeployFiles == 2

LocalFiles == {"index.html", "css/style.css", "robots.txt"}
RemoteFiles == {"index.html", "old.html"}

\* getAllFiles(local_folder): the relative paths, each once
FileLists ==
    {q \in BoundedSeq(LocalFiles, MaxDeployFiles) :
        \A i, j \in 1..Len(q) : i # j => q[i] # q[j]}

SshCall(op, arg) == [op |-> op, arg |-> arg]

\* fs.existsSync(config.local_folder), else throw "Local folder not found"
DeployStart ==
    /\ deploy.pc = "start"
    /\ deploy' = IF deploy.folderExists
                 THEN [deploy EXCEPT !.pc = "connect"]
                 ELSE [deploy EXCEPT !.pc = "threw", !.error = "Local folder not found"]
    /\ UNCHANGED <<auditVars, fixVars, loadVars, runVars, rmwVars, buildVars>>

\* await ssh.connect(connConfig): a rejection goes to the outer catch
Connect ==
    /\ deploy.pc = "connect"
    /\ \E ok \in BOOLEAN :
          deploy' = IF ok
                    THEN [deploy EXCEPT !.pc = "mkdir",
                                        !.log = Append(@, SshCall("connect", ""))]
                    ELSE [deploy EXCEPT !.pc = "dispose",
                                        !.error = "SSH connection failed"]
    /\ UNCHANGED <<auditVars, fixVars, loadVars, runVars, rmwVars, buildVars>>

\* await ssh.execCommand(`mkdir -p ${config.remote_path}`), then getAllFiles
EnsureRemoteDir ==
    /\ deploy.pc = "mkdir"
    /\ \E ok \in BOOLEAN :
          deploy' = IF ok
                    THEN [deploy EXCEPT !.pc = "files",
                                        !.log = Append(@, SshCall("mkdir", "remote_path"))]
                    ELSE [deploy EXCEPT !.pc = "dispose",
                                        !.error = "SSH connection failed"]
    /\ UNCHANGED <<auditVars, fixVars, loadVars, runVars, rmwVars, buildVars>>

\* one turn of the loop over the files: mkdir -p of the remote directory and
\* putFile; a rejection of either is recorded as an error result
UploadFile ==
    /\ deploy.pc = "files"
    /\ deploy.next <= Len(deploy.files)
    /\ LET relPath == deploy.files[deploy.next]
       IN  \E ok \in BOOLEAN :
              deploy' = IF ok
                        THEN [deploy EXCEPT
                                 !.next = @ + 1,
                                 !.log = @ \o <<SshCall("mkdir", relPath),
                                                SshCall("putFile", relPath)>>,
                                 !.remote = @ \cup {relPath},
                                 !.results = Append(@, [file |-> relPath,
                                                        status |-> "success"])]
                        ELSE [deploy EXCEPT
                                 !.next = @ + 1,
                                 !.results = Append(@, [file |-> relPath,
                                                        status |-> "error"])]
    /\ UNCHANGED <<auditVars, fixVars, loadVars, runVars, rmwVars, buildVars>>

\* finally { ssh.dispose() }, then the return of the counts or the throw of
\* the outer catch
Dispose ==
    /\ \/ deploy.pc = "dispose"
       \/ deploy.pc = "files" /\ deploy.next > Len(deploy.files)
    /\ deploy' = [deploy EXCEPT
                     !.pc = IF deploy.pc = "dispose" THEN "threw" ELSE "returned",
                     !.log = Append(@, SshCall("dispose", ""))]
    /\ UNCHANGED <<auditVars, fixVars, loadVars, runVars, rmwVars, buildVars>>

InitDeploy ==
    /\ AuditIdle /\ FixIdle /\ LoadIdle /\ RunIdle /\ RmwIdle /\ BuildIdle
    /\ \E exists \in BOOLEAN, files \in FileLists, remote \in SUBSET RemoteFiles :
          deploy = [pc |-> "start", folderExists |-> exists,
                    files |-> IF exists THEN files ELSE <<>>,
                    next |-> 1, remote |-> remote, log |-> <<>>,
                    results |-> <<>>, error |-> ""]

NextDeploy == DeployStart \/ Connect \/ EnsureRemoteDir \/ UploadFile \/ Dispose

SpecDeploy == InitDeploy /\ [][NextDeploy]_vars

(***************************************************************************)
(* Properties of the report of auditWebsite.                               *)
(***************************************************************************)
\* every item of the report, section after section
AllItems(a) ==
    LET RECURSIVE Flat(_)
        Flat(k) == IF k > Len(a.sections) THEN <<>>
                   ELSE a.sections[k].items \o Flat(k + 1)
    IN  Flat(1)
CountOf(items, S) == Cardinality({i \in 1..Len(items) : items[i].status \in S})

\* the rank the specification gives a priority
SpecRank(p) ==
    CASE p = "critical" -> 0
      [] p = "high" -> 1
      [] p = "medium" -> 2
      [] OTHER -> 3

\* C1: priority_fixes is ordered non-decreasing by rank, critical = 0 < high = 1
\* < medium = 2 < low = 3, any other priority ranking as low.
C1_SortedByPriorityRank ==
    audit.done =>
        LET rank == [k \in 1..Len(audit.priority_fixes) |->
                        SpecRank(audit.priority_fixes[k].priority)]
        IN  \A i, j \in 1..Len(rank) : i < j => rank[i] <= rank[j]

\* C3: total_checks = passed + failed + partial + not_applicable, and every
\* item is counted by exactly the counter of its status.
C3_CountersPartitionItems ==
    audit.done =>
        LET items == AllItems(audit)
        IN  /\ audit.total_checks
                   = audit.passed + audit.failed + audit.partial + audit.not_applicable
            /\ audit.total_checks = Len(items)
            /\ audit.passed = CountOf(items, {"done"})
            /\ audit.failed = CountOf(items, {"missing"})
            /\ audit.partial = CountOf(items, {"partial"})
            /\ audit.not_applicable = CountOf(items, {"not_applicable"})
C3_Witness ==
    /\ audit.done
    /\ audit.passed > 0 /\ audit.failed > 0
    /\ audit.partial > 0 /\ audit.not_applicable > 0

\* C4: score_percentage is 100 * passed / (total_checks - not_applicable)
\* rounded to the nearest integer (a half rounding up) when the denominator is
\* positive, 0 when it is 0, and always an integer in 0..100.
C4_ScoreIsRoundedRatio ==
    audit.done =>
        LET applicable == audit.total_checks - audit.not_applicable
            score == audit.score_percentage
        IN  /\ score \in 0..100
            /\ applicable = 0 => score = 0
            /\ applicable > 0 =>
                  /\ 2 * applicable * score <= 200 * audit.passed + applicable
                  /\ 200 * audit.passed + applicable < 2 * applicable * (score + 1)
\* a report whose exact ratio lies in the upper half between two integers
C4_Witness ==
    /\ audit.done
    /\ audit.total_checks - audit.not_applicable > 0
    /\ 2 * ((100 * audit.passed) % (audit.total_checks - audit.not_applicable))
           >= audit.total_checks - audit.not_applicable

\* the order in which auditWebsite discovers the checks: section after section,
\* and inside a section the order in which the evaluator adds its check-ids
DiscoveryOrder ==
    << "1_01_https", "1_03_robots_txt", "1_04_sitemap_xml", "1_06_canonical_tags",
       "1_07_meta_robots", "1_13_viewport_meta", "1_14_charset", "1_15_lang_attribute",
       "2_01_title_tag", "2_02_meta_description", "2_03_h1_tag", "2_04_heading_hierarchy",
       "2_07_image_alt_tags", "2_08_image_dimensions", "2_11_image_lazy_loading",
       "2_20_favicon",
       "3_01_organization_schema", "3_02_local_business_schema", "3_03_breadcrumb_schema",
       "3_04_faq_schema", "3_05_article_schema", "3_10_speakable_schema",
       "4_01_og_type", "4_02_og_title", "4_03_og_description", "4_04_og_image",
       "4_05_og_url", "4_08_twitter_card",
       "7_01_gzip_compression", "7_07_preload_lcp", "7_08_preconnect", "7_09_defer_js",
       "7_11_font_optimization",
       "8_01_hsts", "8_02_x_content_type", "8_03_x_frame_options", "8_04_xss_protection",
       "8_05_referrer_policy", "8_07_csp",
       "11_01_cta_visibility", "11_04_phone_clickable", "11_05_whatsapp_button",
       "11_03_contact_form", "11_09_cookie_consent",
       "15_01_aria_labels", "15_06_semantic_html", "15_04_form_labels",
       "16_01_privacy_policy", "16_02_terms_of_service", "16_04_copyright_notice" >>
Discovered(id) == CHOOSE k \in 1..Len(DiscoveryOrder) : DiscoveryOrder[k] = id

\* C5: two entries of priority_fixes with the same priority stand in the order
\* in which their checks were discovered.
C5_EqualPriorityKeepsDiscoveryOrder ==
    audit.done =>
        LET fixes == audit.priority_fixes
            entries == [k \in 1..Len(fixes) |->
                           [priority |-> fixes[k].priority,
                            at |-> Discovered(fixes[k].check_id)]]
        IN  \A p \in {fixes[k].priority : k \in 1..Len(fixes)} :
                \* the entries of priority p, in list order: each was discovered
                \* before the next, hence before every later one
                LET same == SelectSeq(entries, LAMBDA e : e.priority = p)
                IN  \A k \in 1..(Len(same) - 1) : same[k].at < same[k + 1].at
\* the sort moved a fix across two fixes of one priority that kept their order
C5_Witness ==
    /\ audit.done
    /\ \E i, j, m \in 1..Len(audit.priority_fixes) :
          /\ i < j
          /\ audit.priority_fixes[i].priority = audit.priority_fixes[j].priority
          /\ audit.priority_fixes[m].priority # audit.priority_fixes[i].priority
          /\ Discovered(audit.priority_fixes[i].check_id)
                 < Discovered(audit.priority_fixes[m].check_id)
          /\ Discovered(audit.priority_fixes[m].check_id)
                 < Discovered(audit.priority_fixes[j].check_id)

\* C6: a check-id is in priority_fixes exactly once when its item is missing
\* or partial and not at all when it is done or not_applicable; the list has
\* failed + partial entries.
C6_FixesAreTheFailingItems ==
    audit.done =>
        LET items == AllItems(audit)
            fixes == audit.priority_fixes
            Entries(id) == Cardinality({k \in 1..Len(fixes) : fixes[k].check_id = id})
        IN  /\ \A i \in 1..Len(items) :
                  Entries(items[i].id)
                      = (IF items[i].status \in {"missing", "partial"} THEN 1 ELSE 0)
            /\ \A k \in 1..Len(fixes) :
                  \E i \in 1..Len(items) : items[i].id = fixes[k].check_id
            /\ Len(fixes) = audit.failed + audit.partial
C6_Witness ==
    /\ audit.done
    /\ \E i \in 1..Len(AllItems(audit)) : AllItems(audit)[i].status = "not_applicable"
    /\ \E i \in 1..Len(AllItems(audit)) : AllItems(audit)[i].status = "partial"
    /\ \E i \in 1..Len(AllItems(audit)) : AllItems(audit)[i].status = "done"
    /\ Len(audit.priority_fixes) > 0

\* C7: in every section, total is the number of items, passed the number of
\* done items, failed the number of missing plus partial items; a
\* not_applicable item is in neither.
C7_SectionCounters ==
    audit.done =>
        \A k \in 1..Len(audit.sections) :
            LET sec == audit.sections[k]
            IN  /\ sec.total = Len(sec.items)
                /\ sec.passed = CountOf(sec.items, {"done"})
                /\ sec.failed = CountOf(sec.items, {"missing", "partial"})
                /\ sec.passed + sec.failed + CountOf(sec.items, {"not_applicable"})
                       = sec.total
C7_Witness ==
    /\ audit.done
    /\ \E k \in 1..Len(audit.sections) :
          /\ CountOf(audit.sections[k].items, {"not_applicable"}) > 0
          /\ CountOf(audit.sections[k].items, {"partial"}) > 0
          /\ audit.sections[k].passed > 0
          /\ CountOf(audit.sections[k].items, {"missing"}) > 0

\* the check-ids of a report with their statuses, section after section
Statuses(a) ==
    [i \in 1..Len(AllItems(a)) |->
        [id |-> AllItems(a)[i].id, status |-> AllItems(a)[i].status]]

\* C16: for the same fetched artifacts the status of every check, the four
\* counters and score_percentage are what they are without any checklist;
\* hence they are the same under any two checklist contents.
C16_ChecklistNeverDecidesStatus ==
    audit.done =>
        LET bare == AuditResult(html, headers, url, robotsTxt, sitemapXml, NullChecklist)
        IN  /\ Statuses(audit) = Statuses(bare)
            /\ audit.passed = bare.passed
            /\ audit.failed = bare.failed
            /\ audit.partial = bare.partial
            /\ audit.not_applicable = bare.not_applicable
            /\ audit.score_percentage = bare.score_percentage
\* a report in which the checklist changed a priority, a label and the order
\* of the fixes
C16_Witness ==
    /\ audit.done
    /\ cachedChecklist.loaded
    /\ LET bare == AuditResult(html, headers, url, robotsTxt, sitemapXml, NullChecklist)
       IN  /\ audit.priority_fixes # bare.priority_fixes
           /\ \E i \in 1..Len(AllItems(audit)) :
                 /\ AllItems(audit)[i].priority # AllItems(bare)[i].priority
                 /\ AllItems(audit)[i].check # AllItems(bare)[i].check
                 /\ AllItems(audit)[i].status = "missing"


(***************************************************************************)
(* Properties of the report when the checklist gives no sections.          *)
(***************************************************************************)
\* the label and the priority each evaluator writes for its checks, in the
\* order of DiscoveryOrder
BuiltIn ==
    << <<"HTTPS", "critical">>, <<"robots.txt", "critical">>, <<"sitemap.xml", "critical">>,
       <<"Canonical tag", "critical">>, <<"Meta robots", "high">>,
       <<"Viewport meta", "critical">>, <<"Charset UTF-8", "high">>,
       <<"Lang attribute", "medium">>,
       <<"Title tag", "critical">>, <<"Meta description", "critical">>,
       <<"H1 tag", "critical">>, <<"Heading hierarchy", "high">>,
       <<"Image alt tags", "critical">>, <<"Image dimensions", "high">>,
       <<"Lazy loading", "high">>, <<"Favicon", "medium">>,
       <<"Organization schema", "high">>, <<"LocalBusiness schema", "high">>,
       <<"BreadcrumbList schema", "high">>, <<"FAQPage schema", "high">>,
       <<"Article schema", "high">>, <<"Speakable schema", "high">>,
       <<"og:type", "high">>, <<"og:title", "high">>, <<"og:description", "high">>,
       <<"og:image", "high">>, <<"og:url", "high">>, <<"Twitter card", "high">>,
       <<"GZIP", "critical">>, <<"Preload LCP", "high">>, <<"Preconnect", "medium">>,
       <<"Defer JS", "high">>, <<"Font swap", "medium">>,
       <<"HSTS", "high">>, <<"X-Content-Type-Options", "high">>,
       <<"X-Frame-Options", "high">>, <<"X-XSS-Protection", "high">>,
       <<"Referrer-Policy", "high">>, <<"CSP", "high">>,
       <<"CTA visibility", "critical">>, <<"Clickable phone", "high">>,
       <<"WhatsApp button", "medium">>, <<"Contact form", "high">>,
       <<"Cookie consent", "medium">>,
       <<"ARIA labels", "high">>, <<"Semantic HTML", "medium">>, <<"Form labels", "high">>,
       <<"Privacy Policy", "critical">>, <<"Terms of Service", "high">>,
       <<"Copyright", "medium">> >>

\* C21: when the checklist is null or holds no section with items, the audit
\* returns a report with every check-id of every evaluator, each with the
\* label and the priority its evaluator writes and with the evaluators'
\* default hint, which is the empty text; its sections are labelled by their
\* keys.
C21_NoChecklistGivesBuiltInItems ==
    (audit.done /\ getAuditSections(cachedChecklist) = <<>>) =>
        LET items == AllItems(audit)
        IN  /\ Len(items) = Len(DiscoveryOrder)
            /\ audit.total_checks = Len(DiscoveryOrder)
            /\ \A k \in 1..Len(items) :
                  /\ items[k].id = DiscoveryOrder[k]
                  /\ items[k].check = BuiltIn[k][1]
                  /\ items[k].priority = BuiltIn[k][2]
                  /\ items[k].how_to_fix = ""
                  /\ items[k].status \in {"done", "missing", "partial", "not_applicable"}
            /\ \A k \in 1..Len(audit.sections) :
                  audit.sections[k].label = audit.sections[k].key
\* a report built under a file that parses and holds no section with items
C21_Witness ==
    /\ audit.done
    /\ cachedChecklist.loaded /\ getAuditSections(cachedChecklist) = <<>>
    /\ audit.passed > 0
    /\ Len(audit.priority_fixes) > 0

\* the sum of one counter over the sections of a report
RECURSIVE SumOver(_, _)
SumOver(secs, field) ==
    IF secs = <<>> THEN 0 ELSE Head(secs)[field] + SumOver(Tail(secs), field)

\* C29: in every AuditResult the section totals add up to total_checks, the
\* section passed counters add up to passed, and the section failed counters
\* add up to failed + partial (the global failed counter counts the missing
\* items only).
C29_SectionCountersRollUp ==
    audit.done =>
        /\ SumOver(audit.sections, "total") = audit.total_checks
        /\ SumOver(audit.sections, "passed") = audit.passed
        /\ SumOver(audit.sections, "failed") = audit.failed + audit.partial
        /\ audit.failed = CountOf(AllItems(audit), {"missing"})
C29_Witness ==
    /\ audit.done
    /\ audit.partial > 1 /\ audit.failed > 1 /\ audit.passed > 1
    /\ audit.not_applicable > 0
    /\ \E j, k \in 1..Len(audit.sections) :
          /\ j # k
          /\ audit.sections[j].failed > 0 /\ audit.sections[j].passed > 0
          /\ audit.sections[k].failed > 0 /\ audit.sections[k].passed > 0

\* the only checks that can be not applicable
MayBeNotApplicable ==
    {"2_07_image_alt_tags", "2_08_image_dimensions", "2_11_image_lazy_loading",
     "15_04_form_labels"}

C27_ChecklistMetadataWins ==
    audit.done =>
        \A s \in 1..Len(audit.sections) :
            LET defs == ItemsOf(getAuditSections(cachedChecklist), audit.sections[s].key)
                items == audit.sections[s].items
            IN  \A k \in 1..Len(items) :
                    items[k].id \in DOMAIN defs =>
                        LET def == defs[items[k].id]
                        IN  /\ def.check # "" => items[k].check = def.check
                            /\ def.priority # "" => items[k].priority = def.priority
                            /\ def.how_to_fix # "" => items[k].how_to_fix = def.how_to_fix

(***************************************************************************)
(* Properties of the on-page evaluator.                                    *)
(***************************************************************************)
\* the status of check id in section number s of a report
StatusAt(a, s, id) ==
    LET items == a.sections[s].items
    IN  items[CHOOSE k \in 1..Len(items) : items[k].id = id].status

\* the classification of a length check: el is the first element found, or None
ByPresenceAndLength(el, lo, hi) ==
    IF ~el.some THEN "missing"
    ELSE IF Len(el.v) >= lo /\ Len(el.v) <= hi THEN "done" ELSE "partial"

\* C24: the title check is done iff a title element is present with a text of
\* 30 to 70 characters, partial iff one is present with a text of another
\* length, missing iff none is present; and the same for the meta
\* description with 100 to 170 characters.
C24_ThresholdsByPresenceAndLength ==
    audit.done =>
        /\ StatusAt(audit, 2, "2_01_title_tag")
              = ByPresenceAndLength(titleMatch(html), 30, 70)
        /\ StatusAt(audit, 2, "2_02_meta_description")
              = ByPresenceAndLength(extractMeta(html, S_description), 100, 170)

\* the classification of a count check: n of the m elements satisfy it
ByCount(n, m) ==
    IF m = 0 THEN "not_applicable"
    ELSE IF n = m THEN "done"
    ELSE IF n > 0 THEN "partial" ELSE "missing"

\* the img elements of d that carry a width and a height, in either order
ImgsWithBothDims(d) ==
    {i \in 1..Len(d) : d[i].k = "img" /\ d[i].f \cap {"dims", "dims_hw"} # {}}

\* C25: with M the number of img elements and N the number of them that
\* satisfy the check, the alt-text check and the dimensions check are
\* not_applicable when M = 0, done when N = M, partial when 0 < N < M and
\* missing when N = 0 < M; a not_applicable result is never in
\* priority_fixes, and a missing alt-text result is there with priority
\* critical.
C25_CountChecksByNOfM ==
    audit.done =>
        LET alt == StatusAt(audit, 2, "2_07_image_alt_tags")
            dims == StatusAt(audit, 2, "2_08_image_dimensions")
            fixes == audit.priority_fixes
        IN  /\ alt = ByCount(imgWithAlt(html), imgTotal(html))
            /\ dims = ByCount(Cardinality(ImgsWithBothDims(html)), imgTotal(html))
            /\ \A id \in {"2_07_image_alt_tags", "2_08_image_dimensions"} :
                  StatusAt(audit, 2, id) = "not_applicable"
                      => \A k \in 1..Len(fixes) : fixes[k].check_id # id
            /\ alt = "missing"
                  => \E k \in 1..Len(fixes) :
                        /\ fixes[k].check_id = "2_07_image_alt_tags"
                        /\ fixes[k].priority = "critical"

(***************************************************************************)
(* The remediation routes against the evaluators.                          *)
(***************************************************************************)
\* the routed check families whose marker an evaluator also detects, each
\* with the section number of its check
RoutedFamilies ==
    << <<"2_01_title_tag", 2>>, <<"2_02_meta_description", 2>>,
       <<"1_06_canonical_tags", 1>>, <<"1_07_meta_robots", 1>>,
       <<"1_13_viewport_meta", 1>>, <<"1_14_charset", 1>>,
       <<"1_15_lang_attribute", 1>> >>

\* the route of check id treats its marker as absent in the text d: an issue
\* of that check makes the loop body push a change
RouteFires(d, id) ==
    ApplyIssue([content |-> d, changes |-> <<>>, ins |-> 0, ids |-> <<>>],
               Issue(id, <<>>), <<>>, <<>>).changes # <<>>

\* C26: for every document text and every routed check family (title, meta
\* description, canonical, meta robots, viewport, charset, lang) the route
\* treats the marker as absent exactly when the evaluator reports that check
\* as missing on the same text.
C26_RoutesDetectLikeEvaluators ==
    audit.done =>
        \A k \in 1..Len(RoutedFamilies) :
            RouteFires(html, RoutedFamilies[k][1])
                <=> StatusAt(audit, RoutedFamilies[k][2], RoutedFamilies[k][1]) = "missing"

(***************************************************************************)
(* Properties of the site builder.                                         *)
(***************************************************************************)
\* the colour scheme a category has by default: that of its template in the
\* checklist file, or the fallback's when it has no template
DefaultScheme(cl, category) ==
    IF getCategoryTemplate(cl, category).some
    THEN FileTemplates[category] ELSE FallbackScheme

\* C22: a build_website or generate_page call that supplies no brand_colors
\* uses the default colour scheme of the category, at any point of any
\* sequence of builds in one process, also after a build of the same category
\* that supplied custom colours.
C22_NoBrandColorsGivesCategoryDefaults ==
    \A k \in 1..Len(builds) :
        builds[k].brand_colors = NoBrandColors
            => builds[k].color_scheme = DefaultScheme(cachedChecklist, builds[k].category)

(***************************************************************************)
(* Properties of deployToHosting.                                          *)
(***************************************************************************)
\* C23: deploy_to_hosting backs up the files already present at the remote
\* path before it uploads any file: in every deployment run a backup step
\* precedes the first upload.
C23_BackupPrecedesFirstUpload ==
    \A k \in 1..Len(deploy.log) :
        deploy.log[k].op = "putFile"
            => \E j \in 1..(k - 1) : deploy.log[j].op = "backup"

(***************************************************************************)
(* Properties of the auditWebsite invocations.                             *)
(***************************************************************************)
\* C11: a subject without a URL scheme is turned into "https://" + subject
\* and its fetches are issued: the call does not fail before it fetches.
C11_BareHostNormalized ==
    \A i \in DOMAIN audits :
        (audits[i].pc # "idle" /\ ~HasScheme(audits[i].subject)) =>
            /\ audits[i].url = S_https \o audits[i].subject
            /\ audits[i].error.what # "TypeError: Invalid URL"

\* the status of check id of the technical section in a report
StatusIn(a, id) ==
    LET items == a.sections[1].items
    IN  items[CHOOSE k \in 1..Len(items) : items[k].id = id].status

\* C13: a robots.txt or sitemap.xml fetch that fails, times out or answers
\* with a status of 400 or more never makes the call throw; its check is
\* reported missing and the report still holds all the checks.
C13_AuxiliaryFailureIsAbsent ==
    \A i \in DOMAIN audits :
        /\ audits[i].pc = "threw" =>
              \/ ~HasScheme(audits[i].url)
              \/ audits[i].pageOutcome = "ECONNREFUSED"
        /\ (/\ audits[i].pageOutcome = "200"
            /\ audits[i].robotsOutcome # "pending"
            /\ audits[i].sitemapOutcome # "pending") => audits[i].all.state = "fulfilled"
        /\ audits[i].pc = "returned" =>
              /\ audits[i].robotsOutcome # "200" =>
                    StatusIn(audits[i].result, "1_03_robots_txt") = "missing"
              /\ audits[i].sitemapOutcome # "200" =>
                    StatusIn(audits[i].result, "1_04_sitemap_xml") = "missing"
              /\ audits[i].result.total_checks = Len(DiscoveryOrder)
              /\ Len(audits[i].result.sections) = 9
\* a call that returned although both auxiliary fetches failed
C13_Witness ==
    \E i \in DOMAIN audits :
        /\ audits[i].pc = "returned"
        /\ audits[i].robotsOutcome = "404"
        /\ audits[i].sitemapOutcome = "timeout"
        /\ audits[i].result.passed > 0

\* C14: when the page fetch fails with a transport error the call throws one
\* error holding the URL and the transport message and returns no report,
\* whatever the auxiliary fetches did and whenever they settled.
C14_PageFailureAbortsAudit ==
    \A i \in DOMAIN audits :
        audits[i].pageOutcome = "ECONNREFUSED" =>
            /\ audits[i].pc \in {"awaiting", "threw"}
            /\ audits[i].result = NoAudit
            /\ audits[i].pc = "threw" =>
                  audits[i].error = [what |-> "Failed to fetch", url |-> audits[i].url,
                                     cause |-> "ECONNREFUSED"]
\* a call that threw after robots.txt had arrived and before sitemap.xml settled
C14_Witness ==
    \E i \in DOMAIN audits :
        /\ audits[i].pc = "threw"
        /\ audits[i].pageOutcome = "ECONNREFUSED"
        /\ audits[i].robotsOutcome = "200"
        /\ audits[i].sitemapOutcome = "pending"

\* the artifacts a call fetched
ArtifactsOf(c) == <<c.url, c.all.value>>

\* C17: two calls of one process that fetched the same artifacts return equal
\* reports (the timestamp aside), whatever ran before or between them.
C17_SameArtifactsSameReport ==
    \A i, j \in DOMAIN audits :
        (/\ audits[i].pc = "returned" /\ audits[j].pc = "returned"
         /\ ArtifactsOf(audits[i]) = ArtifactsOf(audits[j]))
            => audits[i].result = audits[j].result
\* two calls with the same artifacts, the first of which filled the cache
C17_Witness ==
    /\ audits[1].pc = "returned" /\ audits[2].pc = "returned"
    /\ ArtifactsOf(audits[1]) = ArtifactsOf(audits[2])
    /\ cachedChecklist.loaded
    /\ Len(audits[1].result.priority_fixes) > 0

\* C18: a call that returns while other calls are in flight returns the
\* report it would build alone, from its own artifacts and the checklist on
\* disk, and a returned report is never changed by another call.
C18_InterleavedAuditsDoNotInterfere ==
    [][\A i \in DOMAIN audits :
          /\ (audits[i].pc = "awaiting" /\ audits'[i].pc = "returned") =>
                audits'[i].result
                    = ReportOf(audits[i], loadChecklist(NullChecklist, disk).value)
          /\ audits[i].pc = "returned" => audits'[i] = audits[i]]_vars
\* the second call returned while the first, for another URL, is still awaiting
C18_Witness ==
    /\ audits[1].pc = "awaiting" /\ audits[2].pc = "returned"
    /\ audits[1].url # audits[2].url
    /\ audits[1].robotsOutcome # "pending"
    /\ cachedChecklist.loaded

(***************************************************************************)
(* Properties of fixSeoIssues.                                             *)
(***************************************************************************)
\* the status the evaluators give check id on document d
StatusOn(d, id) ==
    LET items == auditTechnicalSeo(d, "https", "", "", NullChecklist)
                     \o auditOnPageSeo(d, NullChecklist)
                     \o auditOgTags(d, NullChecklist)
        at == {i \in 1..Len(items) : items[i].id = id}
    IN  items[First(at)].status

\* q is p with some entries left out, the others in the same order
IsSubsequence(q, p) ==
    \E f \in [1..Len(q) -> 1..Len(p)] :
        /\ \A i \in 1..Len(q) : p[f[i]] = q[i]
        /\ \A i, j \in 1..Len(q) : i < j => f[i] < f[j]

\* the number of entries of the sequence q equal to x
Occurrences(q, x) == Cardinality({i \in 1..Len(q) : q[i] = x})

\* the text has a title element and, after it, a meta description
TitleThenDescription(d) ==
    \E i, j \in 1..Len(d) :
        /\ i < j
        /\ d[i].k = "title"
        /\ d[j].k = "meta_name" /\ d[j].n = S_description

\* C28: fixSeoIssues serves the issues strictly in list order against the
\* progressively patched text.  The change log lists the changes in the
\* order of the issues; the precondition of an issue sees what the earlier
\* issues inserted (a second issue of a route whose element an earlier one
\* put after <head> changes nothing); and so does the anchor search (a title
\* inserted for a 2_01 issue is the anchor of a following 2_02 issue).
C28_IssuesServedInOrderOnPatchedText ==
    (runs > 0 /\ ret.kind = "ok") =>
        LET ids == [k \in 1..Len(issues) |-> issues[k].check_id]
        IN  /\ Len(ret.changes) = Len(loggedIds)
            /\ IsSubsequence(loggedIds, ids)
            /\ HeadAnchors(prevFile) # {} =>
                  \A id \in {"2_01_title_tag", "1_13_viewport_meta", "1_14_charset"} :
                      Occurrences(loggedIds, id) <= 1
            /\ ( /\ \E j, k \in 1..Len(ids) :
                       j < k /\ ids[j] = "2_01_title_tag" /\ ids[k] = "2_02_meta_description"
                 /\ HeadAnchors(prevFile) # {}
                 /\ TitleEndAnchors(prevFile) = {}
                 /\ ~Present(extractMeta(prevFile, S_description)) )
               => /\ TitleThenDescription(file)
                  /\ IsSubsequence(<<"2_01_title_tag", "2_02_meta_description">>, loggedIds)
C28_Witness ==
    /\ runs = 1 /\ ret.kind = "ok"
    /\ Len(issues) = 2
    /\ issues[1].check_id = "2_01_title_tag" /\ issues[2].check_id = "2_02_meta_description"
    /\ HeadAnchors(prevFile) # {} /\ TitleEndAnchors(prevFile) = {}
    /\ TitleThenDescription(file)
    /\ loggedIds = <<"2_01_title_tag", "2_02_meta_description">>
    /\ Len(file) = Len(prevFile) + 2

\* C2: a second run with the same issue list leaves the document as the first
\* run left it and returns an empty change log.
C2_SecondRunChangesNothing ==
    (runs >= 2 /\ ret.kind = "ok") => (file = prevFile /\ ret.changes = <<>>)

\* the number of title elements in a document
TitleCount(d) == Cardinality({i \in 1..Len(d) : d[i].k \in {"title", "title_uc"}})

\* C8: with one title issue, a document without a title marker gets exactly
\* one title element and one change-log entry; a document with one is left
\* alone and the change log is empty.
C8_TitleRoute ==
    (/\ runs = 1 /\ ret.kind = "ok"
     /\ Len(issues) = 1 /\ issues[1].check_id = "2_01_title_tag")
        => IF IncludesTitleOpen(prevFile)
           THEN file = prevFile /\ ret.changes = <<>>
           ELSE /\ TitleCount(file) = 1
                /\ Len(file) = Len(prevFile) + 1
                /\ Len(ret.changes) = 1

\* C9: the change log has as many entries as fragments were inserted into the
\* document.
C9_LogCountsInsertions ==
    ret.kind = "ok" => Len(ret.changes) = inserted

\* C10: a check for which fixSeoIssues reports a change is no longer missing
\* when the evaluators run on the patched document.
C10_ReportedFixClearsMissing ==
    ret.kind = "ok" =>
        \A k \in 1..Len(loggedIds) : StatusOn(file, loggedIds[k]) # "missing"

(***************************************************************************)
(* Properties of the fixSeoIssues invocations.                             *)
(***************************************************************************)
\* the fs calls invocation i has made so far, as positions of the history
CallsBy(i, op) == {n \in 1..Len(fsLog) : fsLog[n].by = i /\ fsLog[n].op = op}

\* C12: a call for a file that does not exist throws an error naming the
\* path before any read, edit or write; the failed call creates and changes
\* no document, then or later.
C12_MissingFileFailsBeforeAnyAccess ==
    [][\A i \in DOMAIN fixCalls :
          /\ (/\ fixCalls[i].pc = "idle" /\ fixCalls'[i].pc # "idle"
              /\ ~docs[fixCalls'[i].filePath].exists) =>
                /\ fixCalls'[i].pc = "threw"
                /\ fixCalls'[i].error = [what |-> "File not found",
                                         path |-> fixCalls'[i].filePath]
                /\ fixCalls'[i].content = <<>> /\ fixCalls'[i].changes = <<>>
                /\ docs' = docs
          /\ fixCalls[i].pc = "threw" =>
                /\ fixCalls'[i] = fixCalls[i]
                /\ \A n \in (Len(fsLog) + 1)..Len(fsLog') : fsLog'[n].by # i
          /\ fixCalls'[i].pc = "threw" =>
                \A n \in 1..Len(fsLog') :
                    fsLog'[n].by = i => fsLog'[n].op = "existsSync"]_vars
\* the second call threw for a missing file after the first had rewritten another
C12_Witness ==
    /\ fixCalls[1].pc = "returned" /\ fixCalls[1].content # fixCalls[1].readText
    /\ fixCalls[2].pc = "threw"
    /\ fixCalls[2].error = [what |-> "File not found", path |-> fixCalls[2].filePath]
    /\ ~docs[fixCalls[2].filePath].exists
    /\ fixCalls[2].issues # <<>>

\* the check-id passes the test of at least one route
HasRoute(issue) ==
    LET t == CheckIdText(issue.check_id)
    IN  \/ \E pre \in {<<"2","_","0","1">>, <<"2","_","0","2">>, <<"1","_","0","6">>,
                       <<"1","_","0","7">>, <<"1","_","1","3">>, <<"1","_","1","4">>,
                       <<"1","_","1","5">>} : StartsWith(t, pre)
        \/ StartsWith(t, <<"4","_">>) /\ Includes(t, <<"o","g","_">>)

\* C15: an issue whose check-id matches no route raises no error, adds
\* nothing to the change log and leaves the text as it was, and the other
\* issues are processed: after every turn of the loop the text and the log
\* are those of the same issues without the unrouted ones.
C15_UnroutedIssueIsSkipped ==
    \A i \in DOMAIN fixCalls :
        LET c == fixCalls[i]
            kept == SelectSeq(SubSeq(c.issues, 1, c.k), HasRoute)
            alone == Remediate(c.readText, kept, <<>>, <<>>)
        IN  /\ c.pc = "threw" => c.error.what = "File not found"
            /\ \A n \in 1..Len(c.ids) : HasRoute(Issue(c.ids[n], <<>>))
            /\ c.pc \in {"read", "returned"} =>
                  /\ c.content = alone.content
                  /\ c.changes = alone.changes
            /\ c.pc = "returned" =>
                  /\ c.k = Len(c.issues)
                  /\ c.ret.changes = alone.changes
\* a call that skipped an unrouted issue and then applied the title issue
C15_Witness ==
    \E i \in DOMAIN fixCalls :
        /\ fixCalls[i].pc = "returned"
        /\ Len(fixCalls[i].issues) = 2
        /\ ~HasRoute(fixCalls[i].issues[1]) /\ HasRoute(fixCalls[i].issues[2])
        /\ Len(fixCalls[i].ret.changes) = 1
        /\ docs[fixCalls[i].filePath].text # fixCalls[i].readText

\* C19: an invocation that finds its document reads it once and writes it
\* once, the write after all its issues were applied, and no fs call of
\* another invocation on the same document falls between its read and its
\* write.
C19_OneExclusiveReadModifyWrite ==
    \A i \in DOMAIN fixCalls :
        LET c == fixCalls[i]
            reads == CallsBy(i, "readFileSync")
            writes == CallsBy(i, "writeFileSync")
            Foreign(n) == fsLog[n].by # i /\ fsLog[n].path = c.filePath
        IN  /\ Cardinality(reads) <= 1 /\ Cardinality(writes) <= 1
            /\ c.pc = "read" =>
                  /\ Cardinality(reads) = 1 /\ writes = {}
                  /\ \A r \in reads : \A n \in (r + 1)..Len(fsLog) : ~Foreign(n)
            /\ c.pc = "returned" =>
                  /\ Cardinality(reads) = 1 /\ Cardinality(writes) = 1
                  /\ \A r \in reads : \A w \in writes :
                        /\ r < w
                        /\ fsLog[w].k = Len(c.issues)
                        /\ \A n \in (r + 1)..(w - 1) : ~Foreign(n)
                  /\ c.content = Remediate(c.readText, c.issues, <<>>, <<>>).content
\* two calls on one document, the second reading what the first wrote
C19_Witness ==
    /\ fixCalls[1].pc = "returned" /\ fixCalls[2].pc = "returned"
    /\ fixCalls[1].filePath = fixCalls[2].filePath
    /\ fixCalls[1].content # fixCalls[1].readText
    /\ fixCalls[2].readText = fixCalls[1].content
    /\ Len(fixCalls[2].issues) = 2

====
